---- MODULE Spec2Model ----
(***************************************************************************)
(* A model of the ggca correlation pipeline (src/src/analysis.rs) and of   *)
(* its multiple-testing adjustment strategies (src/src/adjustment.rs).     *)
(*                                                                         *)
(* Numbers.  f64 values are modelled as exact extended rationals <<n, d>>  *)
(* with d >= 0: d > 0 is the rational n/d in lowest terms, <<1, 0>> is     *)
(* +infinity, <<-1, 0>> is -infinity and <<0, 0>> is NaN.  Rounding is not *)
(* modelled.  Option<T> is a sequence: <<>> is None and <<v>> is Some(v).  *)
(***************************************************************************)
EXTENDS Integers, Sequences, FiniteSets, TLC

----------------------------------------------------------------------------
(* Bounds of the model *)

\* the largest number of (row of A, row of B) pairs of a run
MaxPairs == 3

\* the largest number of p-values handed to one adjustment strategy in AdjSpec
MaxN == 4

\* the p-values of AdjSpec are the multiples of 1/PDen in [0, 1]
PDen == 4

----------------------------------------------------------------------------
(* f64 arithmetic on extended rationals *)

RECURSIVE Gcd(_, _)
Gcd(a, b) == IF b = 0 THEN a ELSE Gcd(b, a % b)

AbsInt(n) == IF n < 0 THEN -n ELSE n

SignInt(n) == IF n > 0 THEN 1 ELSE IF n < 0 THEN -1 ELSE 0

\* n/d as an f64: x/0 is +-infinity, 0/0 is NaN
Rat(n, d) ==
    IF d = 0 THEN <<SignInt(n), 0>>
    ELSE LET g == Gcd(AbsInt(n), AbsInt(d))
             s == IF d < 0 THEN -1 ELSE 1
         IN  <<(s * n) \div g, (s * d) \div g>>

NaN == <<0, 0>>

IsNaN(x) == x = NaN

FMul(x, y) == Rat(x[1] * y[1], x[2] * y[2])

\* 1/x: 1/0 is +infinity, 1/infinity is 0
FRecip(x) == IF x[1] >= 0 THEN <<x[2], x[1]>> ELSE <<-x[2], -x[1]>>

FDiv(x, y) == FMul(x, FRecip(y))

FAdd(x, y) == Rat(x[1] * y[2] + y[1] * x[2], x[2] * y[2])

FSub(x, y) == FAdd(x, <<-y[1], y[2]>>)

FAbs(x) == <<AbsInt(x[1]), x[2]>>

\* x <= y on f64: false when either is NaN
FLe(x, y) ==
    /\ ~IsNaN(x)
    /\ ~IsNaN(y)
    /\ IF x[2] = 0 /\ y[2] = 0 THEN x[1] <= y[1]
       ELSE x[1] * y[2] <= y[1] * x[2]

FLt(x, y) == FLe(x, y) /\ x # y

\* f64::min: the other operand when one is NaN
FMin(x, y) ==
    IF IsNaN(x) THEN y
    ELSE IF IsNaN(y) THEN x
    ELSE IF FLe(x, y) THEN x ELSE y

\* f64::MAX: larger than every finite value the model computes
F64Max == <<1, 0>>

One == <<1, 1>>

Zero == <<0, 1>>

Some(v) == <<v>>

None == <<>>

IsSome(o) == Len(o) = 1

Unwrap(o) == o[1]

----------------------------------------------------------------------------
(* Inputs of a run *)

\* the adjustment methods (adjustment.rs, enum AdjustmentMethod)
AdjustmentMethods == {"BenjaminiHochberg", "BenjaminiYekutieli", "Bonferroni"}

\* primary labels of the rows of the second dataset; row i of the first
\* dataset is labelled i, so label 0 matches no gene
GemLabels == {0, 1}

\* what a correlation strategy returns for two non-constant rows:
\* (statistic, two-sided p-value)
Outcomes ==
    { [correlation |-> Rat(-9, 10), p_value |-> Rat(1, 20)],
      [correlation |-> Rat(1, 2),   p_value |-> Rat(2, 5)],
      [correlation |-> Rat(3, 10),  p_value |-> Rat(1, 2)] }

\* what it returns when one of the rows has zero variance
NaNOutcome == [correlation |-> NaN, p_value |-> NaN]

Thresholds == {Zero, Rat(1, 2)}

TopNs == {None, Some(2)}

\* the shapes (rows of A, rows of B) of the two datasets
Shapes == {sh \in (1..MaxPairs) \X (1..MaxPairs) : sh[1] * sh[2] <= MaxPairs}

VARIABLES
    sort_by_calls,      \* the comparators of the sorter.sort_by calls so far
    analysis,           \* the Analysis struct: the configuration of the run
    d1_vec,             \* rows of the first dataset (genes)
    d2_vec,             \* rows of the second dataset (GEMs)
    correlate,          \* the strategy's result for each pair of rows
    pc,                 \* the stage run_analysis is at
    generated,          \* per row of A: its mapped chunk, None before the map
    fpos,               \* per row of A: how many of its records are filtered
    kept,               \* per row of A: the records that passed the filter
    number_of_cor_filtered,     \* ConstantInputError's counter
    filtered,           \* the collected stream after the NaN filter
    number_of_evaluated_combinations,
    sorted,             \* the stream handed to enumerate()
    rank,               \* how many records enumerate() has yielded
    adjustment_struct,  \* the running state of the adjustment strategy
    adjust_calls,       \* the (p_value, rank, q_value) of every adjust() call
    thresholded,        \* the records that passed the threshold filter
    total_combinations_count,
    result,
    ranked,             \* the adjustment test's p-values, sorted descending
    mutex,              \* number_of_cor_filtered's Mutex: None, or Some(holder)
    wpc,                \* per filter worker: where it is in p_value_is_nan
    loaded,             \* per filter worker: the counter value it read
    warned,             \* what warn_if_needed read: None before it runs
    max_mem,            \* ExternalSorter.max_mem (bytes)
    file_count,         \* ExternalSorter.file_count
    tempdir,            \* the files of ExternalSorter.tempdir: file n is tempdir[n + 1]
    sorter_alive,       \* FALSE once the ExternalSorter value is dropped
    es_pc,              \* where the caller of the sorter is
    iterator,           \* what is left of the stream passed to sort()
    buf,                \* sort()'s buffer
    kmerge,             \* the KMerge sort() returned: its HeadTail entries
    merged,             \* the items the KMerge has yielded
    sort_input,         \* the stream passed to the running or last sort()
    sorts,              \* how many times sort() has been called
    fault,              \* the kind of I/O operation that may fail
    failed,             \* the kind of I/O operation that has failed
    gene_file,          \* the file at Analysis.gene_file_path
    gem_file,           \* the file at Analysis.gem_file_path
    gem_contains_cpg,   \* Analysis.gem_contains_cpg
    collect_gem_dataset,        \* Analysis.collect_gem_dataset
    compute_pc,         \* where compute() is
    compute_result,     \* None, or Some(error) once compute() has returned it
    should_collect_gem_dataset, \* None before compute() has set it
    xs,                 \* the row of A handed to Correlation::correlate
    ys,                 \* the row of B handed to Correlation::correlate
    cor_pc,             \* where the evaluation of the pair is
    pearson_r,          \* r: Pearson's coefficient of the pair
    statistic,          \* its test statistic
    cdf,                \* None, or Some(the distribution's value at statistic)
    returned,           \* None, or Some((r, p-value)) once correlate has returned
    kendall,            \* the arguments and locals of tau_b_with_comparator
    kendall_pc          \* where tau_b_with_comparator is

vars == <<sort_by_calls, analysis, d1_vec, d2_vec, correlate, pc, generated, fpos, kept,
          number_of_cor_filtered, filtered, number_of_evaluated_combinations,
          sorted, rank, adjustment_struct, adjust_calls, thresholded,
          total_combinations_count, result, ranked, mutex, wpc, loaded,
          warned, max_mem, file_count, tempdir, sorter_alive, es_pc, iterator,
          buf, kmerge, merged, sort_input, sorts, fault, failed, gene_file,
          gem_file, gem_contains_cpg, collect_gem_dataset, compute_pc,
          compute_result, should_collect_gem_dataset, xs, ys, cor_pc,
          pearson_r, statistic, cdf, returned, kendall, kendall_pc>>

\* the state of the counter's lock, written only by the steps of
\* p_value_is_nan and warn_if_needed
lockvars == <<mutex, wpc, loaded, warned>>

\* the state of the external sort engine of external_sort.rs
sortvars == <<max_mem, file_count, tempdir, sorter_alive, es_pc, iterator, buf,
              kmerge, merged, sort_input, sorts, fault, failed>>

\* the files and the locals of compute()
compvars == <<gene_file, gem_file, gem_contains_cpg, collect_gem_dataset,
              compute_pc, compute_result, should_collect_gem_dataset>>

\* the arguments and the locals of Pearson::correlate
corvars == <<xs, ys, cor_pc, pearson_r, statistic, cdf, returned>>

\* the arguments and the locals of tau_b_with_comparator
kendvars == <<kendall, kendall_pc>>

auxvars == <<lockvars, sortvars, compvars, corvars, kendvars>>

----------------------------------------------------------------------------
(* adjustment.rs *)

\* Bonferroni::new, BenjaminiHochberg::new
BonferroniNew(total_number_of_elements) ==
    [method |-> "Bonferroni",
     total_number_of_elements |-> total_number_of_elements]

BenjaminiHochbergNew(total_number_of_elements) ==
    [method |-> "BenjaminiHochberg",
     total_number_of_elements |-> total_number_of_elements,
     previous_max_p_value |-> F64Max]

\* mutant of HarmonicFold: the fold stops one term early (1..n)
RECURSIVE HarmonicFoldExclusive(_, _, _)
HarmonicFoldExclusive(acc, x, n) ==
    IF x >= n THEN acc
    ELSE HarmonicFoldExclusive(FAdd(acc, FDiv(One, Rat(x, 1))), x + 1, n)

\* (1..n + 1).fold(0.0, |acc, x| acc + (1.0 / x as f64))
RECURSIVE HarmonicFold(_, _, _)
HarmonicFold(acc, x, n) ==
    IF x >= n + 1 THEN acc
    ELSE HarmonicFold(FAdd(acc, FDiv(One, Rat(x, 1))), x + 1, n)

\* total_number_of_elements is a whole number: `as u64` is its numerator
BenjaminiYekutieliNew(total_number_of_elements) ==
    [method |-> "BenjaminiYekutieli",
     total_number_of_elements |-> total_number_of_elements,
     previous_max_p_value |-> F64Max,
     accumulator |-> HarmonicFold(Zero, 1, total_number_of_elements[1])]

get_adjustment_method(adjustment_method, total_number_of_elements) ==
    CASE adjustment_method = "Bonferroni" ->
            BonferroniNew(total_number_of_elements)
      [] adjustment_method = "BenjaminiHochberg" ->
            BenjaminiHochbergNew(total_number_of_elements)
      [] adjustment_method = "BenjaminiYekutieli" ->
            BenjaminiYekutieliNew(total_number_of_elements)

\* mutant of BonferroniAdjust: the multiplier shrinks with the rank, as the
\* step-up methods' does
BonferroniAdjustByRank(self, p_value, r) ==
    [q_value |-> FMin(FMul(p_value,
                           FDiv(self.total_number_of_elements,
                                FSub(self.total_number_of_elements, Rat(r, 1)))),
                      One),
     self |-> self]

\* each adjust returns the q-value and the strategy's state after the call
BonferroniAdjust(self, p_value, r) ==
    [q_value |-> FMin(FMul(p_value, self.total_number_of_elements), One),
     self |-> self]

\* mutant of BenjaminiHochbergAdjust: the running minimum is left out
BenjaminiHochbergAdjustNoRunningMin(self, p_value, r) ==
    LET valid_rank == FSub(self.total_number_of_elements, Rat(r, 1))
        q_value_0  == FMul(p_value, FDiv(self.total_number_of_elements, valid_rank))
        q_value    == FMin(q_value_0, One)
    IN  [q_value |-> q_value,
         self |-> [self EXCEPT !.previous_max_p_value = q_value]]

\* mutant of BenjaminiHochbergAdjust: the running minimum is not stored
BenjaminiHochbergAdjustStale(self, p_value, r) ==
    LET valid_rank == FSub(self.total_number_of_elements, Rat(r, 1))
        q_value_0  == FMul(p_value, FDiv(self.total_number_of_elements, valid_rank))
        q_value    == FMin(FMin(q_value_0, self.previous_max_p_value), One)
    IN  [q_value |-> q_value, self |-> self]

BenjaminiHochbergAdjust(self, p_value, r) ==
    LET valid_rank == FSub(self.total_number_of_elements, Rat(r, 1))
        q_value_0  == FMul(p_value, FDiv(self.total_number_of_elements, valid_rank))
        q_value    == FMin(FMin(q_value_0, self.previous_max_p_value), One)
    IN  [q_value |-> q_value,
         self |-> [self EXCEPT !.previous_max_p_value = q_value]]

BenjaminiYekutieliAdjust(self, p_value, r) ==
    LET valid_rank == FSub(self.total_number_of_elements, Rat(r, 1))
        adjustment_factor ==
            FDiv(FMul(self.accumulator, self.total_number_of_elements), valid_rank)
        q_value_0  == FMul(p_value, adjustment_factor)
        q_value    == FMin(FMin(q_value_0, self.previous_max_p_value), One)
    IN  [q_value |-> q_value,
         self |-> [self EXCEPT !.previous_max_p_value = q_value]]

\* dynamic dispatch of Adjustment::adjust
Adjust(self, p_value, r) ==
    CASE self.method = "Bonferroni" -> BonferroniAdjust(self, p_value, r)
      [] self.method = "BenjaminiHochberg" -> BenjaminiHochbergAdjust(self, p_value, r)
      [] self.method = "BenjaminiYekutieli" -> BenjaminiYekutieliAdjust(self, p_value, r)

----------------------------------------------------------------------------
(* helpers on sequences *)

\* mutant of Concat: the chunks are joined last row first
RECURSIVE ConcatReversed(_, _)
ConcatReversed(ch, n) == IF n = 0 THEN <<>> ELSE ch[n] \o ConcatReversed(ch, n - 1)

RECURSIVE Concat(_, _)
\* the chunks ch[1], ..., ch[n], one after the other
Concat(ch, n) == IF n = 0 THEN <<>> ELSE Concat(ch, n - 1) \o ch[n]

Take(s, n) == IF n >= Len(s) THEN s ELSE SubSeq(s, 1, n)

Perms(n) == {f \in [1..n -> 1..n] : \A i, j \in 1..n : i # j => f[i] # f[j]}

\* every arrangement of s whose keys are in descending order, key[i] being
\* the key of s[i]; the order of records with equal keys is the sorter's choice
SortedDescBy(s, key) ==
    { [i \in 1..Len(s) |-> s[f[i]]] :
        f \in {g \in Perms(Len(s)) :
                 \A i \in 1..(Len(s) - 1) : FLe(key[g[i + 1]], key[g[i]])} }

----------------------------------------------------------------------------
(* analysis.rs *)

get_correlation_result(i, j) ==
    [gene |-> d1_vec[i].gene,
     gem |-> d2_vec[j].gene,
     correlation |-> Some(correlate[<<i, j>>].correlation),
     p_value |-> Some(correlate[<<i, j>>].p_value),
     adjusted_p_value |-> None]

cartesian_all_vs_all(i, j) == get_correlation_result(i, j)

\* mutant of cartesian_equal_genes: the placeholder of a non-matching pair
\* carries a statistic
cartesian_equal_genes_with_statistic(i, j) ==
    IF d1_vec[i].gene = d2_vec[j].gene
    THEN get_correlation_result(i, j)
    ELSE [gene |-> d1_vec[i].gene,
          gem |-> d2_vec[j].gene,
          correlation |-> Some(Zero),
          p_value |-> None,
          adjusted_p_value |-> None]

cartesian_equal_genes(i, j) ==
    IF d1_vec[i].gene = d2_vec[j].gene
    THEN get_correlation_result(i, j)
    ELSE [gene |-> d1_vec[i].gene,
          gem |-> d2_vec[j].gene,
          correlation |-> None,
          p_value |-> None,
          adjusted_p_value |-> None]

correlation_function(i, j) ==
    IF analysis.is_all_vs_all
    THEN cartesian_all_vs_all(i, j)
    ELSE cartesian_equal_genes(i, j)

\* CorResult::abs_correlation
abs_correlation(cor_result) == FAbs(Unwrap(cor_result.correlation))

\* the comparator of the rank sort orders by this, descending (lines 199-205)
PValueKey(cor_result) == Unwrap(cor_result.p_value)

\* mutant of CorrelationKey: the sign of the statistic is kept
CorrelationKeySigned(cor_result) == Unwrap(cor_result.correlation)

\* the comparator of the top-N sort orders by this, descending (lines 245-252)
CorrelationKey(cor_result) == abs_correlation(cor_result)

\* mutant of ThresholdKeeps: the comparison is the wrong way round
ThresholdKeepsReversed(cor_result) ==
    FLe(abs_correlation(cor_result), analysis.correlation_threshold)

\* the threshold filter's closure (lines 228-232)
ThresholdKeeps(cor_result) ==
    FLe(analysis.correlation_threshold, abs_correlation(cor_result))

\* ConstantInputError::p_value_is_nan, without its increment
p_value_is_nan(cor_result) == IsNaN(Unwrap(cor_result.p_value))

\* mutant of NanFilterKeeps: the threshold is applied before the count
NanFilterKeepsAboveThreshold(cor_result) ==
    IF analysis.is_all_vs_all
    THEN ~p_value_is_nan(cor_result) /\ ThresholdKeeps(cor_result)
    ELSE /\ cor_result.gene = cor_result.gem
         /\ ~p_value_is_nan(cor_result)
         /\ ThresholdKeeps(cor_result)

\* mutant of NanFilterKeeps: the matching-only branch forgets the NaN check
NanFilterKeepsNaNOfMatches(cor_result) ==
    IF analysis.is_all_vs_all
    THEN ~p_value_is_nan(cor_result)
    ELSE cor_result.gene = cor_result.gem

\* the filter closure: whether the record is kept
NanFilterKeeps(cor_result) ==
    IF analysis.is_all_vs_all
    THEN ~p_value_is_nan(cor_result)
    ELSE cor_result.gene = cor_result.gem /\ ~p_value_is_nan(cor_result)

\* mutant of NanFilterCounts: the increment is outside the NaN test
NanFilterCountsEveryCheck(cor_result) ==
    IF analysis.is_all_vs_all
    THEN TRUE
    ELSE cor_result.gene = cor_result.gem

\* whether the filter closure calls p_value_is_nan and finds a NaN
NanFilterCounts(cor_result) ==
    IF analysis.is_all_vs_all
    THEN p_value_is_nan(cor_result)
    ELSE cor_result.gene = cor_result.gem /\ p_value_is_nan(cor_result)

\* the rows of the two datasets and the strategy's result for each pair of
\* rows.  A constant (zero-variance) row, and only such a row, gives a NaN
\* statistic and a NaN p-value; the model puts the constant rows in A.
Datasets(a, b) ==
    { [d1 |-> [i \in 1..a |-> [gene |-> i, constant |-> c1[i]]],
       d2 |-> [j \in 1..b |-> [gene |-> l2[j], constant |-> FALSE]],
       cor |-> [pr \in (1..a) \X (1..b) |->
                  IF c1[pr[1]] THEN NaNOutcome ELSE o[pr]]] :
        c1 \in [1..a -> BOOLEAN],
        l2 \in [1..b -> GemLabels],
        o \in [(1..a) \X (1..b) -> Outcomes] }

Configs ==
    [correlation_threshold : Thresholds,
     adjustment_method : AdjustmentMethods,
     is_all_vs_all : BOOLEAN,
     keep_top_n : TopNs]

\* the lock is free and no worker is inside p_value_is_nan
LockIdle ==
    /\ mutex = None
    /\ wpc = <<>>
    /\ loaded = <<>>
    /\ warned = None

\* no ExternalSorter of external_sort.rs exists
SortIdle ==
    /\ max_mem = 0
    /\ file_count = 0
    /\ tempdir = <<>>
    /\ sorter_alive = FALSE
    /\ es_pc = "none"
    /\ iterator = <<>>
    /\ buf = <<>>
    /\ kmerge = <<>>
    /\ merged = <<>>
    /\ sort_input = <<>>
    /\ sorts = 0
    /\ fault = "none"
    /\ failed = "none"

\* compute() is not what is modelled: the datasets are given as rows
ComputeIdle ==
    /\ gene_file = <<>>
    /\ gem_file = <<>>
    /\ gem_contains_cpg = FALSE
    /\ collect_gem_dataset = None
    /\ compute_pc = "none"
    /\ compute_result = None
    /\ should_collect_gem_dataset = None

\* no pair is being evaluated by a correlation strategy of its own
CorIdle ==
    /\ xs = <<>>
    /\ ys = <<>>
    /\ cor_pc = "none"
    /\ pearson_r = <<>>
    /\ statistic = <<>>
    /\ cdf = None
    /\ returned = None

\* tau_b_with_comparator is not running
KendallIdle ==
    /\ kendall = <<>>
    /\ kendall_pc = "none"

AuxIdle == LockIdle /\ SortIdle /\ ComputeIdle /\ CorIdle /\ KendallIdle

\* the state of run_analysis before its first statement
InitRun(cfg, d) ==
    /\ sort_by_calls = <<>>
    /\ analysis = cfg
    /\ d1_vec = d.d1
    /\ d2_vec = d.d2
    /\ correlate = d.cor
    /\ pc = "evaluate"
    /\ generated = [i \in 1..Len(d.d1) |-> None]
    /\ fpos = [i \in 1..Len(d.d1) |-> 0]
    /\ kept = [i \in 1..Len(d.d1) |-> <<>>]
    /\ number_of_cor_filtered = 0
    /\ filtered = <<>>
    /\ number_of_evaluated_combinations = 0
    /\ sorted = <<>>
    /\ rank = 0
    /\ adjustment_struct = None
    /\ adjust_calls = <<>>
    /\ thresholded = <<>>
    /\ total_combinations_count = 0
    /\ result = <<>>
    /\ ranked = <<>>
    /\ AuxIdle

Init ==
    \E sh \in Shapes, cfg \in Configs :
        \E d \in Datasets(sh[1], sh[2]) : InitRun(cfg, d)

\* one worker maps one row of A against every row of B (lines 161-170)
MapRow(i) ==
    /\ pc = "evaluate"
    /\ generated[i] = None
    /\ generated' = [generated EXCEPT
                       ![i] = Some([j \in 1..Len(d2_vec) |-> correlation_function(i, j)])]
    /\ UNCHANGED auxvars
    /\ UNCHANGED <<sort_by_calls, analysis, d1_vec, d2_vec, correlate, pc, fpos, kept,
                   number_of_cor_filtered, filtered,
                   number_of_evaluated_combinations, sorted, rank,
                   adjustment_struct, adjust_calls, thresholded,
                   total_combinations_count, result, ranked>>

\* the filter closure on the next record of chunk i (lines 174-184); the
\* counter's lock makes its increment one step
FilterItem(i) ==
    /\ pc = "evaluate"
    /\ generated[i] # None
    /\ fpos[i] < Len(d2_vec)
    /\ LET cor_result == Unwrap(generated[i])[fpos[i] + 1] IN
        /\ number_of_cor_filtered' =
              IF NanFilterCounts(cor_result)
              THEN number_of_cor_filtered + 1
              ELSE number_of_cor_filtered
        /\ kept' = IF NanFilterKeeps(cor_result)
                   THEN [kept EXCEPT ![i] = Append(@, cor_result)]
                   ELSE kept
    /\ fpos' = [fpos EXCEPT ![i] = @ + 1]
    /\ UNCHANGED auxvars
    /\ UNCHANGED <<sort_by_calls, analysis, d1_vec, d2_vec, correlate, pc, generated, filtered,
                   number_of_evaluated_combinations, sorted, rank,
                   adjustment_struct, adjust_calls, thresholded,
                   total_combinations_count, result, ranked>>

\* mutant of CountOf: the size of the cartesian product
CountOfCartesian(stream) == Len(d1_vec) * Len(d2_vec)

\* tee() and count() of the collected stream (lines 187-188)
CountOf(stream) == Len(stream)

\* collect::<Vec<_>>() once every worker is done, then tee() and count()
\* (lines 178, 183, 187-188)
CountSurvivors ==
    /\ pc = "evaluate"
    /\ \A i \in 1..Len(d1_vec) : generated[i] # None /\ fpos[i] = Len(d2_vec)
    /\ filtered' = Concat(kept, Len(d1_vec))
    /\ number_of_evaluated_combinations' = CountOf(filtered')
    /\ pc' = "sort"
    /\ UNCHANGED auxvars
    /\ UNCHANGED <<sort_by_calls, analysis, d1_vec, d2_vec, correlate, generated, fpos, kept,
                   number_of_cor_filtered, sorted, rank, adjustment_struct,
                   adjust_calls, thresholded, total_combinations_count, result,
                   ranked>>

\* mutant of RankSorted: the rank sort is skipped for every method
RankSortedSkipped == {filtered}

\* mutant of RankSorted: the rank sort runs for every method
RankSortedForEveryMethod ==
    SortedDescBy(filtered, [k \in 1..Len(filtered) |-> PValueKey(filtered[k])])

\* the stream that feeds enumerate() (lines 191-207)
RankSorted ==
    IF analysis.adjustment_method = "Bonferroni"
    THEN {filtered}
    ELSE SortedDescBy(filtered, [k \in 1..Len(filtered) |-> PValueKey(filtered[k])])

\* mutant of RankSortCalls: the sorter is invoked for every method
RankSortCallsForEveryMethod == Append(sort_by_calls, "p_value_desc")

\* the sort_by calls made once the match of lines 191-207 has been evaluated
RankSortCalls ==
    IF analysis.adjustment_method = "Bonferroni"
    THEN sort_by_calls
    ELSE Append(sort_by_calls, "p_value_desc")

\* the rank sort, enumerate() and get_adjustment_method (lines 191-216)
RankSort ==
    /\ pc = "sort"
    /\ sorted' \in RankSorted
    /\ rank' = 0
    /\ adjustment_struct' =
          Some(get_adjustment_method(analysis.adjustment_method,
                                     Rat(number_of_evaluated_combinations, 1)))
    /\ pc' = "adjust"
    /\ sort_by_calls' = RankSortCalls
    /\ UNCHANGED auxvars
    /\ UNCHANGED <<analysis, d1_vec, d2_vec, correlate, generated, fpos, kept,
                   number_of_cor_filtered, filtered,
                   number_of_evaluated_combinations, adjust_calls, thresholded,
                   total_combinations_count, result, ranked>>

\* mutant of AdjustNext: the threshold filter runs before the adjusting map
AdjustNextFilterFirst ==
    /\ pc = "adjust"
    /\ rank < Len(sorted)
    /\ LET cor_and_p_value == sorted[rank + 1]
           p_value == Unwrap(cor_and_p_value.p_value)
           adj == Adjust(Unwrap(adjustment_struct), p_value, rank)
           adjusted == [cor_and_p_value EXCEPT
                          !.adjusted_p_value = Some(adj.q_value)]
       IN  IF ThresholdKeeps(cor_and_p_value)
           THEN /\ adjustment_struct' = Some(adj.self)
                /\ adjust_calls' = Append(adjust_calls,
                       [p_value |-> p_value, rank |-> rank,
                        q_value |-> adj.q_value])
                /\ thresholded' = Append(thresholded, adjusted)
           ELSE UNCHANGED <<adjustment_struct, adjust_calls, thresholded>>
    /\ rank' = rank + 1
    /\ UNCHANGED auxvars
    /\ UNCHANGED <<sort_by_calls, analysis, d1_vec, d2_vec, correlate, pc, generated, fpos, kept,
                   number_of_cor_filtered, filtered,
                   number_of_evaluated_combinations, sorted,
                   total_combinations_count, result, ranked>>

\* one record pulled through enumerate, the adjusting map and the threshold
\* filter (lines 210-232)
AdjustNext ==
    /\ pc = "adjust"
    /\ rank < Len(sorted)
    /\ LET cor_and_p_value == sorted[rank + 1]
           p_value == Unwrap(cor_and_p_value.p_value)
           adj == Adjust(Unwrap(adjustment_struct), p_value, rank)
           adjusted == [cor_and_p_value EXCEPT
                          !.adjusted_p_value = Some(adj.q_value)]
       IN  /\ adjustment_struct' = Some(adj.self)
           /\ adjust_calls' = Append(adjust_calls,
                  [p_value |-> p_value, rank |-> rank, q_value |-> adj.q_value])
           /\ thresholded' = IF ThresholdKeeps(adjusted)
                             THEN Append(thresholded, adjusted)
                             ELSE thresholded
    /\ rank' = rank + 1
    /\ UNCHANGED auxvars
    /\ UNCHANGED <<sort_by_calls, analysis, d1_vec, d2_vec, correlate, pc, generated, fpos, kept,
                   number_of_cor_filtered, filtered,
                   number_of_evaluated_combinations, sorted,
                   total_combinations_count, result, ranked>>

\* keep_top_n = Some(top_n): tee, sort by |correlation| descending, take, count
\* and collect (lines 237-257, 261)
KeepTopN ==
    /\ pc = "adjust"
    /\ rank = Len(sorted)
    /\ IsSome(analysis.keep_top_n)
    /\ \E sorted_cor_desc \in
            SortedDescBy(thresholded,
                         [k \in 1..Len(thresholded) |-> CorrelationKey(thresholded[k])]) :
          result' = Take(sorted_cor_desc, Unwrap(analysis.keep_top_n))
    /\ total_combinations_count' = Len(thresholded)
    /\ pc' = "done"
    /\ sort_by_calls' = Append(sort_by_calls, "abs_correlation_desc")
    /\ UNCHANGED auxvars
    /\ UNCHANGED <<analysis, d1_vec, d2_vec, correlate, generated, fpos, kept,
                   number_of_cor_filtered, filtered,
                   number_of_evaluated_combinations, sorted, rank,
                   adjustment_struct, adjust_calls, thresholded, ranked>>

\* mutant of NoTruncateCount: the size of the cartesian product
NoTruncateCountCartesian == Len(d1_vec) * Len(d2_vec)

\* the count run_analysis returns when keep_top_n is None (line 258)
NoTruncateCount == number_of_evaluated_combinations

\* keep_top_n = None: collect the filtered stream (lines 258, 261)
NoTruncate ==
    /\ pc = "adjust"
    /\ rank = Len(sorted)
    /\ analysis.keep_top_n = None
    /\ result' = thresholded
    /\ total_combinations_count' = NoTruncateCount
    /\ pc' = "done"
    /\ UNCHANGED auxvars
    /\ UNCHANGED <<sort_by_calls, analysis, d1_vec, d2_vec, correlate, generated, fpos, kept,
                   number_of_cor_filtered, filtered,
                   number_of_evaluated_combinations, sorted, rank,
                   adjustment_struct, adjust_calls, thresholded, ranked>>

Next ==
    \/ \E i \in 1..Len(d1_vec) : MapRow(i)
    \/ \E i \in 1..Len(d1_vec) : FilterItem(i)
    \/ CountSurvivors
    \/ RankSort
    \/ AdjustNext
    \/ KeepTopN
    \/ NoTruncate

Spec == Init /\ [][Next]_vars

----------------------------------------------------------------------------
(* tests/common_adjustment/mod.rs: a strategy driven over a vector of        *)
(* p-values sorted descending, rank 0, 1, ...                                *)

PGrid == {Rat(k, PDen) : k \in 0..PDen}

\* the vectors x of the test after its descending sort (line 13)
RankedVectors ==
    UNION { { x \in [1..n -> PGrid] :
                \A k \in 1..(n - 1) : FLe(x[k + 1], x[k]) } : n \in 0..MaxN }

AdjInit ==
    \E x \in RankedVectors, method \in AdjustmentMethods :
        /\ ranked = x
        /\ adjustment_struct = Some(get_adjustment_method(method, Rat(Len(x), 1)))
        /\ rank = 0
        /\ adjust_calls = <<>>
        /\ pc = "adjustment_test"
        /\ sort_by_calls = <<>>
        /\ analysis = [correlation_threshold |-> Zero,
                       adjustment_method |-> method,
                       is_all_vs_all |-> TRUE,
                       keep_top_n |-> None]
        /\ d1_vec = <<>>
        /\ d2_vec = <<>>
        /\ correlate = <<>>
        /\ generated = <<>>
        /\ fpos = <<>>
        /\ kept = <<>>
        /\ number_of_cor_filtered = 0
        /\ filtered = <<>>
        /\ number_of_evaluated_combinations = 0
        /\ sorted = <<>>
        /\ thresholded = <<>>
        /\ total_combinations_count = 0
        /\ result = <<>>
        /\ AuxIdle

\* one iteration of the test's map (lines 20-25)
AdjustTestCall ==
    /\ pc = "adjustment_test"
    /\ rank < Len(ranked)
    /\ LET p_value == ranked[rank + 1]
           adj == Adjust(Unwrap(adjustment_struct), p_value, rank)
       IN  /\ adjustment_struct' = Some(adj.self)
           /\ adjust_calls' = Append(adjust_calls,
                  [p_value |-> p_value, rank |-> rank, q_value |-> adj.q_value])
    /\ rank' = rank + 1
    /\ UNCHANGED auxvars
    /\ UNCHANGED <<sort_by_calls, analysis, d1_vec, d2_vec, correlate, pc, generated, fpos, kept,
                   number_of_cor_filtered, filtered,
                   number_of_evaluated_combinations, sorted, thresholded,
                   total_combinations_count, result, ranked>>

AdjNext == AdjustTestCall

AdjSpec == AdjInit /\ [][AdjNext]_vars

----------------------------------------------------------------------------
(* Claims about the adjustment strategies, checked under AdjSpec *)

StepUpMethods == {"BenjaminiHochberg", "BenjaminiYekutieli"}

\* the least element of a non-empty set of numbers
MinOf(S) == CHOOSE m \in S : \A y \in S : FLe(m, y)

\* C1: for Benjamini-Hochberg and Benjamini-Yekutieli, driven with rank
\* 0, 1, ... over p-values in descending order, the values adjust() returns
\* are non-increasing, so that read in ascending raw-p-value order the
\* adjusted p-values are non-decreasing.
C1_MonotonicAdjustment ==
    (pc = "adjustment_test" /\ analysis.adjustment_method \in StepUpMethods) =>
        /\ \A k \in 1..(Len(adjust_calls) - 1) :
              FLe(adjust_calls[k + 1].q_value, adjust_calls[k].q_value)
        /\ \A k, l \in 1..Len(adjust_calls) :
              FLt(adjust_calls[k].p_value, adjust_calls[l].p_value) =>
                  FLe(adjust_calls[k].q_value, adjust_calls[l].q_value)

\* a finished Benjamini-Hochberg run over at least three p-values in which
\* the running minimum, not the record's own product, gave a value below 1
C1_Witness ==
    /\ pc = "adjustment_test"
    /\ analysis.adjustment_method = "BenjaminiHochberg"
    /\ Len(ranked) >= 3
    /\ Len(adjust_calls) = Len(ranked)
    /\ \E k \in 1..(Len(adjust_calls) - 1) :
          /\ FLt(adjust_calls[k + 1].p_value, adjust_calls[k].p_value)
          /\ adjust_calls[k + 1].q_value = adjust_calls[k].q_value
          /\ FLt(adjust_calls[k].q_value, One)

\* the sum of 1/k for k = 1..n
RECURSIVE Harmonic(_)
Harmonic(n) == IF n = 0 THEN Zero ELSE FAdd(Harmonic(n - 1), Rat(1, n))

\* the reference step-up value of the record at 1-based position i of the
\* p-values sorted ascending, x being the same p-values sorted descending:
\* the least min(1, p(j) * scale * N / j) over j >= i
StepUpReference(x, i, scale) ==
    LET N == Len(x)
        p(j) == x[N - j + 1]
    IN  MinOf({ FMin(One, FDiv(FMul(FMul(p(j), scale), Rat(N, 1)), Rat(j, 1))) :
                  j \in i..N })

\* C2: the streaming recurrence gives the record of 0-based descending rank r
\* the reference step-up value of ascending position N - r; for
\* Benjamini-Yekutieli the multiplier is scaled by c(N) = sum of 1/k, k = 1..N.
C2_StepUpEquivalence ==
    (pc = "adjustment_test" /\ analysis.adjustment_method \in StepUpMethods) =>
        \A k \in 1..Len(adjust_calls) :
            adjust_calls[k].q_value =
                StepUpReference(ranked, Len(ranked) - adjust_calls[k].rank,
                    IF analysis.adjustment_method = "BenjaminiYekutieli"
                    THEN Harmonic(Len(ranked)) ELSE One)

\* a finished Benjamini-Yekutieli run over at least three p-values in which
\* some record takes its value from a record of larger p-value
C2_Witness ==
    /\ pc = "adjustment_test"
    /\ analysis.adjustment_method = "BenjaminiYekutieli"
    /\ Len(ranked) >= 3
    /\ Len(adjust_calls) = Len(ranked)
    /\ \E k \in 1..Len(adjust_calls) :
          /\ FLt(adjust_calls[k].q_value, One)
          /\ FLt(adjust_calls[k].q_value,
                 FDiv(FMul(FMul(adjust_calls[k].p_value, Harmonic(Len(ranked))),
                           Rat(Len(ranked), 1)),
                      Rat(Len(ranked) - adjust_calls[k].rank, 1)))

----------------------------------------------------------------------------
(* Claims about the pipeline, checked under Spec *)

AllPairs == (1..Len(d1_vec)) \X (1..Len(d2_vec))

\* the pairs whose primary labels are exactly equal
MatchingPairs == {pr \in AllPairs : d1_vec[pr[1]].gene = d2_vec[pr[2]].gene}

\* the pairs for which a correlation is computed
ComputedPairs == IF analysis.is_all_vs_all THEN AllPairs ELSE MatchingPairs

HasNaNPValue(pr) == IsNaN(correlate[pr].p_value)

\* the stages after the survivors are counted
Counted == {"sort", "adjust", "done"}

\* how many records of s have |statistic| >= correlation_threshold
PassingCount(s) ==
    Cardinality({k \in 1..Len(s) :
        FLe(analysis.correlation_threshold, FAbs(Unwrap(s[k].correlation)))})

\* how many times record x occurs in s
Occurrences(s, x) == Cardinality({k \in 1..Len(s) : s[k] = x})

\* how many records of s have |statistic| > m
CountAbove(s, m) ==
    Cardinality({k \in 1..Len(s) : FLt(m, FAbs(Unwrap(s[k].correlation)))})

MinInt(a, b) == IF a <= b THEN a ELSE b

\* C3: with top_n set, count_before_truncation is the number of records that
\* pass the threshold filter, the result has min(top_n, count) records ordered
\* by |statistic| descending, every one of them a threshold-passing record,
\* and no discarded threshold-passing record has a larger |statistic| than a
\* retained one.
C3_TopNInvariant ==
    (pc = "done" /\ IsSome(analysis.keep_top_n)) =>
        /\ total_combinations_count = PassingCount(filtered)
        /\ Len(result) =
              MinInt(Unwrap(analysis.keep_top_n), total_combinations_count)
        /\ \A k \in 1..(Len(result) - 1) :
              FLe(FAbs(Unwrap(result[k + 1].correlation)),
                  FAbs(Unwrap(result[k].correlation)))
        /\ \A k \in 1..Len(result) :
              Occurrences(result, result[k]) <= Occurrences(thresholded, result[k])
        /\ Len(result) > 0 =>
              LET least == FAbs(Unwrap(result[Len(result)].correlation))
              IN  CountAbove(thresholded, least) = CountAbove(result, least)

\* a capped run that discards a threshold-passing record and returns two
\* records of different |statistic|
C3_Witness ==
    /\ pc = "done"
    /\ analysis.keep_top_n = Some(2)
    /\ total_combinations_count = 3
    /\ Len(result) = 2
    /\ FAbs(Unwrap(result[1].correlation)) # FAbs(Unwrap(result[2].correlation))

\* C4 as claimed: without a cap, count_before_truncation is the number of
\* records that passed the threshold filter, which is the result length.
C4_NoCapCountIsFilteredCount ==
    (pc = "done" /\ analysis.keep_top_n = None) =>
        /\ total_combinations_count = PassingCount(filtered)
        /\ total_combinations_count = Len(result)

\* C5: every record of the returned result has |statistic| >= the threshold.
C5_ThresholdInvariant ==
    \A k \in 1..Len(result) :
        FLe(analysis.correlation_threshold, FAbs(Unwrap(result[k].correlation)))

\* a finished run with a positive threshold that dropped a record and kept
\* one whose |statistic| is exactly the threshold
C5_Witness ==
    /\ pc = "done"
    /\ analysis.correlation_threshold = Rat(1, 2)
    /\ Len(result) < number_of_evaluated_combinations
    /\ \E k \in 1..Len(result) :
          FAbs(Unwrap(result[k].correlation)) = analysis.correlation_threshold

\* C6: N_evaluated is fixed by the datasets and the all_vs_all flag alone (the
\* number of computed pairs whose p-value is not NaN), whatever the threshold,
\* top_n and the adjustment method are, and stays so until the run returns.
C6_EvaluatedCountFrame ==
    pc \in Counted =>
        number_of_evaluated_combinations =
            Cardinality({pr \in ComputedPairs : ~HasNaNPValue(pr)})

\* a finished capped run with a positive threshold that returns fewer
\* records than it evaluated
C6_Witness ==
    /\ pc = "done"
    /\ analysis.correlation_threshold = Rat(1, 2)
    /\ analysis.keep_top_n = Some(2)
    /\ analysis.adjustment_method = "BenjaminiYekutieli"
    /\ number_of_evaluated_combinations = 3
    /\ Len(result) = 1

\* the adjusting map of lines 213-224 run over the first n records of the
\* ranked stream s with nothing filtered after it and nothing truncated
RECURSIVE AdjustAll(_, _)
AdjustAll(s, n) ==
    IF n = 0
    THEN [self |-> get_adjustment_method(analysis.adjustment_method,
                                         Rat(CountOf(s), 1)),
          out |-> <<>>]
    ELSE LET before == AdjustAll(s, n - 1)
             adj == Adjust(before.self, Unwrap(s[n].p_value), n - 1)
         IN  [self |-> adj.self,
              out |-> Append(before.out,
                             [s[n] EXCEPT !.adjusted_p_value = Some(adj.q_value)])]

\* the results of the runs with threshold 0 and no cap on the same input, one
\* for each order the rank sort may leave tied records in
UnfilteredRuns == {AdjustAll(s, Len(s)).out : s \in RankSorted}

C8_MatchingCountIsLabelMatches ==
    (~analysis.is_all_vs_all /\ pc \in Counted) =>
        number_of_evaluated_combinations = Cardinality(MatchingPairs)

\* C8, amended: in matching-only mode N_evaluated is the number of pairs of
\* rows with exactly equal primary labels whose p-value is not NaN, whatever
\* |A|*|B| is, and no non-matching pair is ever ranked, adjusted or returned.
C8_MatchingOnlyCount ==
    ~analysis.is_all_vs_all =>
        /\ pc \in Counted =>
              number_of_evaluated_combinations =
                  Cardinality({pr \in MatchingPairs : ~HasNaNPValue(pr)})
        /\ \A s \in {filtered, sorted, thresholded, result} :
              \A k \in 1..Len(s) : s[k].gene = s[k].gem
        /\ Len(adjust_calls) <= Cardinality(MatchingPairs)

\* a finished matching-only run over three pairs of which two match
C8_Witness ==
    /\ pc = "done"
    /\ ~analysis.is_all_vs_all
    /\ Cardinality(AllPairs) = 3
    /\ Cardinality(MatchingPairs) = 2
    /\ number_of_evaluated_combinations = 2
    /\ Len(adjust_calls) = 2
    /\ Len(result) = 2

\* C9: in matching-only mode with no label shared between the datasets the
\* run comes to its end with N_evaluated = 0 and an empty result, for every
\* adjustment method; the adjustment state is built with N = 0 and adjust()
\* is never called.
C9_NoSharedLabel ==
    (~analysis.is_all_vs_all /\ MatchingPairs = {}) =>
        /\ pc = "done" \/ ENABLED Next
        /\ pc \in Counted => number_of_evaluated_combinations = 0
        /\ IsSome(adjustment_struct) =>
              Unwrap(adjustment_struct).total_number_of_elements = Zero
        /\ adjust_calls = <<>>
        /\ pc = "done" => result = <<>> /\ total_combinations_count = 0

\* a finished Benjamini-Yekutieli run over two datasets that share no label
C9_Witness ==
    /\ pc = "done"
    /\ ~analysis.is_all_vs_all
    /\ MatchingPairs = {}
    /\ Cardinality(AllPairs) >= 2
    /\ analysis.adjustment_method = "BenjaminiYekutieli"
    /\ IsSome(adjustment_struct)
    /\ Unwrap(adjustment_struct).accumulator = Zero

\* the rows of A that are constant
ConstantRows == {i \in 1..Len(d1_vec) : d1_vec[i].constant}

\* the records the filter closure has seen so far
FilterChecked ==
    {pr \in ComputedPairs : generated[pr[1]] # None /\ pr[2] <= fpos[pr[1]]}

RECURSIVE SumLen(_, _)
SumLen(ch, n) == IF n = 0 THEN 0 ELSE SumLen(ch, n - 1) + Len(ch[n])

\* C10: no returned record has a NaN p-value; every pair for which a
\* correlation was computed is counted either in N_evaluated or, once, in the
\* NaN-filtered counter; in all-vs-all mode the two add up to |A|*|B|, and one
\* constant row in A makes the counter equal the number of rows of B.
C10_NaNFiltering ==
    /\ \A k \in 1..Len(result) : ~IsNaN(Unwrap(result[k].p_value))
    /\ pc = "evaluate" =>
          /\ number_of_cor_filtered =
                Cardinality({pr \in FilterChecked : HasNaNPValue(pr)})
          /\ SumLen(kept, Len(d1_vec)) =
                Cardinality({pr \in FilterChecked : ~HasNaNPValue(pr)})
    /\ pc \in Counted =>
          /\ number_of_evaluated_combinations + number_of_cor_filtered =
                Cardinality(ComputedPairs)
          /\ number_of_cor_filtered =
                Cardinality({pr \in ComputedPairs : HasNaNPValue(pr)})
          /\ analysis.is_all_vs_all =>
                number_of_evaluated_combinations + number_of_cor_filtered =
                    Len(d1_vec) * Len(d2_vec)
          /\ (analysis.is_all_vs_all /\ Cardinality(ConstantRows) = 1) =>
                number_of_cor_filtered = Len(d2_vec)

\* a finished all-vs-all run over two rows of A, one of them constant
C10_Witness ==
    /\ pc = "done"
    /\ analysis.is_all_vs_all
    /\ Len(d1_vec) >= 2
    /\ Cardinality(ConstantRows) = 1
    /\ number_of_cor_filtered = Len(d2_vec)
    /\ number_of_evaluated_combinations >= 1
    /\ Len(result) >= 1

----------------------------------------------------------------------------
(* analysis.rs: the parallel filter of lines 174-184 at the grain of the     *)
(* steps of ConstantInputError::p_value_is_nan (lines 91-98), the collect    *)
(* that joins the workers and warn_if_needed (lines 101-109, 264)            *)

\* the threshold, the method and the cap play no part in the filter
FilterConfigs ==
    {cfg \in Configs : /\ cfg.correlation_threshold = Zero
                       /\ cfg.adjustment_method = "Bonferroni"
                       /\ cfg.keep_top_n = None}

FilterInit ==
    \E sh \in Shapes, cfg \in FilterConfigs :
        \E d \in Datasets(sh[1], sh[2]) :
            /\ sort_by_calls = <<>>
            /\ analysis = cfg
            /\ d1_vec = d.d1
            /\ d2_vec = d.d2
            /\ correlate = d.cor
            /\ pc = "evaluate"
            /\ generated = [i \in 1..Len(d.d1) |-> None]
            /\ fpos = [i \in 1..Len(d.d1) |-> 0]
            /\ kept = [i \in 1..Len(d.d1) |-> <<>>]
            /\ number_of_cor_filtered = 0
            /\ filtered = <<>>
            /\ number_of_evaluated_combinations = 0
            /\ sorted = <<>>
            /\ rank = 0
            /\ adjustment_struct = None
            /\ adjust_calls = <<>>
            /\ thresholded = <<>>
            /\ total_combinations_count = 0
            /\ result = <<>>
            /\ ranked = <<>>
            /\ mutex = None
            /\ wpc = [i \in 1..Len(d.d1) |-> "test"]
            /\ loaded = [i \in 1..Len(d.d1) |-> 0]
            /\ warned = None
            /\ SortIdle
            /\ ComputeIdle
            /\ CorIdle
            /\ KendallIdle

\* the variables the steps of the filter leave alone
afterfilter == <<sort_by_calls, analysis, d1_vec, d2_vec, correlate, generated,
                 number_of_evaluated_combinations, sorted, rank,
                 adjustment_struct, adjust_calls, thresholded,
                 total_combinations_count, result, ranked, sortvars, compvars,
                 corvars, kendvars>>

\* the filter closure up to the test of line 92: a record that is not a NaN
\* of a computed pair is kept or dropped at once
FilterTest(i) ==
    /\ pc = "evaluate"
    /\ generated[i] # None
    /\ wpc[i] = "test"
    /\ fpos[i] < Len(d2_vec)
    /\ LET cor_result == Unwrap(generated[i])[fpos[i] + 1] IN
        IF NanFilterCounts(cor_result)
        THEN /\ wpc' = [wpc EXCEPT ![i] = "lock"]
             /\ UNCHANGED <<kept, fpos>>
        ELSE /\ kept' = IF NanFilterKeeps(cor_result)
                        THEN [kept EXCEPT ![i] = Append(@, cor_result)]
                        ELSE kept
             /\ fpos' = [fpos EXCEPT ![i] = @ + 1]
             /\ UNCHANGED wpc
    /\ UNCHANGED <<pc, number_of_cor_filtered, filtered, mutex, loaded, warned>>
    /\ UNCHANGED afterfilter

\* mutant of LockAvailable: lock() does not wait
LockAlwaysAvailable(m) == TRUE

\* Mutex::lock returns only when no other guard is alive
LockAvailable(m) == m = None

\* number_of_cor_filtered.lock() (line 93)
MutexLock(i) ==
    /\ pc = "evaluate"
    /\ wpc[i] = "lock"
    /\ LockAvailable(mutex)
    /\ mutex' = Some(i)
    /\ wpc' = [wpc EXCEPT ![i] = "load"]
    /\ UNCHANGED <<pc, fpos, kept, number_of_cor_filtered, filtered, loaded, warned>>
    /\ UNCHANGED afterfilter

\* += 1 through the guard: the read (line 93)
CounterLoad(i) ==
    /\ pc = "evaluate"
    /\ wpc[i] = "load"
    /\ loaded' = [loaded EXCEPT ![i] = number_of_cor_filtered]
    /\ wpc' = [wpc EXCEPT ![i] = "store"]
    /\ UNCHANGED <<pc, fpos, kept, number_of_cor_filtered, filtered, mutex, warned>>
    /\ UNCHANGED afterfilter

\* += 1 through the guard: the write (line 93)
CounterStore(i) ==
    /\ pc = "evaluate"
    /\ wpc[i] = "store"
    /\ number_of_cor_filtered' = loaded[i] + 1
    /\ wpc' = [wpc EXCEPT ![i] = "unlock"]
    /\ UNCHANGED <<pc, fpos, kept, filtered, mutex, loaded, warned>>
    /\ UNCHANGED afterfilter

\* the guard is dropped at the end of the statement and p_value_is_nan
\* returns true: the record is not kept (lines 93-94)
GuardDrop(i) ==
    /\ pc = "evaluate"
    /\ wpc[i] = "unlock"
    /\ mutex' = None
    /\ wpc' = [wpc EXCEPT ![i] = "test"]
    /\ fpos' = [fpos EXCEPT ![i] = @ + 1]
    /\ UNCHANGED <<pc, kept, number_of_cor_filtered, filtered, loaded, warned>>
    /\ UNCHANGED afterfilter

\* collect::<Vec<_>>() returns when every worker has finished; the chunks are
\* in the order of the rows (lines 178, 183)
FilterCollect ==
    /\ pc = "evaluate"
    /\ \A i \in 1..Len(d1_vec) : generated[i] # None /\ fpos[i] = Len(d2_vec)
    /\ filtered' = Concat(kept, Len(d1_vec))
    /\ pc' = "collected"
    /\ UNCHANGED <<fpos, kept, number_of_cor_filtered, lockvars>>
    /\ UNCHANGED afterfilter

\* warn_if_needed reads the counter (lines 102, 264)
warn_if_needed ==
    /\ pc = "collected"
    /\ LockAvailable(mutex)
    /\ warned' = Some(number_of_cor_filtered)
    /\ pc' = "warned"
    /\ UNCHANGED <<fpos, kept, number_of_cor_filtered, filtered, mutex, wpc, loaded>>
    /\ UNCHANGED afterfilter

FilterNext ==
    \/ \E i \in 1..Len(d1_vec) : MapRow(i)
    \/ \E i \in 1..Len(d1_vec) : FilterTest(i)
    \/ \E i \in 1..Len(d1_vec) : MutexLock(i)
    \/ \E i \in 1..Len(d1_vec) : CounterLoad(i)
    \/ \E i \in 1..Len(d1_vec) : CounterStore(i)
    \/ \E i \in 1..Len(d1_vec) : GuardDrop(i)
    \/ FilterCollect
    \/ warn_if_needed

FilterSpec == FilterInit /\ [][FilterNext]_vars

----------------------------------------------------------------------------
(* Claims about the NaN-filtered counter, checked under FilterSpec *)

\* the positions of p_value_is_nan at which a worker holds the guard
Holding == {"load", "store", "unlock"}

NaNComputedPairs == {pr \in ComputedPairs : HasNaNPValue(pr)}

\* C11: the NaN-filtered counter is incremented under its lock exactly once
\* per detection: at most one worker is inside the locked region, no
\* increment is lost or duplicated under any interleaving of the workers, the
\* final value is the number of evaluated pairs with a NaN p-value, and the
\* warning reads it only after every worker has finished.
C11_CounterUnderLock ==
    /\ \A i, j \in DOMAIN wpc :
          (wpc[i] \in Holding /\ wpc[j] \in Holding) => i = j
    /\ \A i \in DOMAIN wpc : wpc[i] \in Holding => mutex = Some(i)
    /\ pc = "evaluate" =>
          number_of_cor_filtered =
              Cardinality({pr \in FilterChecked : HasNaNPValue(pr)})
              + Cardinality({i \in DOMAIN wpc : wpc[i] = "unlock"})
    /\ pc \in {"collected", "warned"} =>
          number_of_cor_filtered = Cardinality(NaNComputedPairs)
    /\ IsSome(warned) =>
          /\ \A i \in DOMAIN wpc : wpc[i] = "test" /\ fpos[i] = Len(d2_vec)
          /\ mutex = None
          /\ Unwrap(warned) = Cardinality(NaNComputedPairs)

\* three workers have each found a NaN: one has counted it, one is between
\* its read and its write of the counter, one waits for the lock
C11_Witness ==
    /\ pc = "evaluate"
    /\ Len(d1_vec) = 3
    /\ number_of_cor_filtered = 1
    /\ \E i, j \in DOMAIN wpc : wpc[i] = "store" /\ wpc[j] = "lock"

----------------------------------------------------------------------------
(* Claims about the records, checked under Spec *)

\* every record the map has generated so far
GeneratedRecords ==
    UNION {{Unwrap(generated[i])[j] : j \in 1..Len(d2_vec)} :
              i \in {r \in 1..Len(d1_vec) : generated[r] # None}}

RecordsOf(s) == {s[k] : k \in 1..Len(s)}

\* the records that have not been through the adjusting map
Unadjusted ==
    GeneratedRecords \cup UNION {RecordsOf(kept[i]) : i \in 1..Len(d1_vec)}
        \cup RecordsOf(filtered) \cup RecordsOf(sorted)

\* C12: in every generated record the statistic and the raw p-value are both
\* null or both non-null, and null exactly when matching-only mode excluded
\* the pair (labels differ); adjusted_p_value is null before the adjustment
\* stage; every record that left the adjustment stage, and so every record
\* of the returned result, has all three non-null.
C12_ResultRecordInvariant ==
    /\ \A rec \in GeneratedRecords :
          /\ (rec.correlation = None) <=> (rec.p_value = None)
          /\ (rec.correlation = None) <=>
                (~analysis.is_all_vs_all /\ rec.gene # rec.gem)
    /\ \A rec \in Unadjusted : rec.adjusted_p_value = None
    /\ \A rec \in RecordsOf(thresholded) \cup RecordsOf(result) :
          /\ IsSome(rec.correlation)
          /\ IsSome(rec.p_value)
          /\ IsSome(rec.adjusted_p_value)

\* a finished matching-only run that generated a placeholder for a
\* non-matching pair and returned the record of a matching one
C12_Witness ==
    /\ pc = "done"
    /\ ~analysis.is_all_vs_all
    /\ \E rec \in GeneratedRecords : rec.gene # rec.gem /\ rec.correlation = None
    /\ \E rec \in GeneratedRecords : rec.gene = rec.gem /\ IsSome(rec.p_value)
    /\ Len(result) >= 1

----------------------------------------------------------------------------
(* external_sort.rs: ExternalSorter, write_chunk, sort, ChunkReader and the  *)
(* KMerge that sort returns                                                  *)

\* the longest stream passed to the first sort() of a sorter
MaxItems == 3

\* the longest stream passed to a later sort() of the same sorter
MaxReuseItems == 1

\* the largest max_mem, in bytes
MaxMem == 4

\* how many times one sorter is used
MaxSorts == 2

\* std::mem::size_of::<T>() (line 57)
SizeOfItem == 2

\* the items: Ord compares the key only, the tag tells equal keys apart
SortItems == [key : 0..1, tag : 0..1]

StreamsUpTo(n) == UNION {[1..k -> SortItems] : k \in 0..n}

\* T::cmp
ItemLess(a, b) == a.key < b.key

\* the kinds of I/O operation that can fail
FaultKinds == {"create", "write", "flush", "open", "read"}

\* Sortable::encode
Encode(item) == <<item.key, item.tag>>

RECURSIVE EncodeAll(_)
EncodeAll(chunk) ==
    IF chunk = <<>> THEN <<>> ELSE Encode(Head(chunk)) \o EncodeAll(Tail(chunk))

\* Sortable::decode at offset pos of a file: None at the end of the file or
\* when what is left is not a whole item
Decode(data, pos) ==
    IF pos + SizeOfItem <= Len(data)
    THEN Some([key |-> data[pos + 1], tag |-> data[pos + 2]])
    ELSE None

\* mutant of SortedUnstable: the chunk is written as it was buffered
Unsorted(b) == {b}

\* buf.par_sort_unstable(): any arrangement in ascending order
SortedUnstable(b) ==
    {[k \in 1..Len(b) |-> b[f[k]]] : f \in
        {g \in Perms(Len(b)) :
            \A k \in 1..(Len(b) - 1) : ~ItemLess(b[g[k + 1]], b[g[k]])}}

\* File::create(file_name(n)) and the bytes written to it
PutFile(dir, n, content) ==
    IF n + 1 <= Len(dir)
    THEN [dir EXCEPT ![n + 1] = content]
    ELSE Append(dir, content)

\* max_size of sort() (line 57)
MaxSize == max_mem \div SizeOfItem

\* the outcomes of write_chunk(b) (lines 36-46): the file is written and
\* counted; File::create fails; a write fails inside encode, which has no
\* error to return; flush fails
write_chunk(b) ==
    {[status |-> "ok",
      tempdir |-> PutFile(tempdir, file_count, EncodeAll(chunk)),
      file_count |-> file_count + 1,
      failed |-> failed] : chunk \in SortedUnstable(b)}
    \cup (IF fault = "create"
          THEN {[status |-> "err", tempdir |-> tempdir,
                 file_count |-> file_count, failed |-> "create"]}
          ELSE {})
    \cup (IF fault = "write" /\ b # <<>>
          THEN {[status |-> "panic",
                 tempdir |-> PutFile(tempdir, file_count, <<>>),
                 file_count |-> file_count, failed |-> "write"]}
          ELSE {})
    \cup (IF fault = "flush"
          THEN {[status |-> "err",
                 tempdir |-> PutFile(tempdir, file_count, <<>>),
                 file_count |-> file_count, failed |-> "flush"]}
          ELSE {})

\* the state of the sorter's caller after write_chunk's outcome w
AfterWrite(w) ==
    IF w.status = "ok" THEN "loop" ELSE w.status

\* the pipeline is not running
PipelineIdle ==
    /\ sort_by_calls = <<>>
    /\ analysis = [correlation_threshold |-> Zero,
                   adjustment_method |-> "Bonferroni",
                   is_all_vs_all |-> TRUE,
                   keep_top_n |-> None]
    /\ d1_vec = <<>>
    /\ d2_vec = <<>>
    /\ correlate = <<>>
    /\ generated = <<>>
    /\ fpos = <<>>
    /\ kept = <<>>
    /\ number_of_cor_filtered = 0
    /\ filtered = <<>>
    /\ number_of_evaluated_combinations = 0
    /\ sorted = <<>>
    /\ rank = 0
    /\ adjustment_struct = None
    /\ adjust_calls = <<>>
    /\ thresholded = <<>>
    /\ total_combinations_count = 0
    /\ result = <<>>
    /\ ranked = <<>>

pipevars == <<sort_by_calls, analysis, d1_vec, d2_vec, correlate, pc,
              generated, fpos, kept, number_of_cor_filtered, filtered,
              number_of_evaluated_combinations, sorted, rank,
              adjustment_struct, adjust_calls, thresholded,
              total_combinations_count, result, ranked>>

\* ExternalSorter::new(max_mem) (lines 23-30)
ExtInit ==
    \E m \in 1..MaxMem, f \in FaultKinds \cup {"none"} :
        /\ pc = "external_sort"
        /\ PipelineIdle
        /\ LockIdle
        /\ ComputeIdle
        /\ CorIdle
        /\ KendallIdle
        /\ max_mem = m
        /\ file_count = 0
        /\ tempdir = <<>>
        /\ sorter_alive = TRUE
        /\ es_pc = "idle"
        /\ iterator = <<>>
        /\ buf = <<>>
        /\ kmerge = <<>>
        /\ merged = <<>>
        /\ sort_input = <<>>
        /\ sorts = 0
        /\ fault = f
        /\ failed = "none"

\* a fault that has happened does not happen again
Disarm(now_failed) == IF now_failed # failed THEN "none" ELSE fault

\* sort(iterator) is called (lines 49-58)
SortCall ==
    /\ pc = "external_sort"
    /\ sorter_alive
    /\ es_pc \in {"idle", "consumed", "err"}
    /\ sorts < MaxSorts
    /\ \E stream \in StreamsUpTo(IF sorts = 0 THEN MaxItems ELSE MaxReuseItems) :
          /\ iterator' = stream
          /\ sort_input' = stream
    /\ buf' = <<>>
    /\ kmerge' = <<>>
    /\ merged' = <<>>
    /\ sorts' = sorts + 1
    /\ es_pc' = "loop"
    /\ UNCHANGED <<max_mem, file_count, tempdir, sorter_alive, fault, failed>>
    /\ UNCHANGED <<pipevars, lockvars, compvars, corvars, kendvars>>

\* one iteration of the loop of sort() (lines 59-65)
SortLoop ==
    /\ pc = "external_sort"
    /\ es_pc = "loop"
    /\ iterator # <<>>
    /\ IF Len(buf) = MaxSize
       THEN \E w \in write_chunk(buf) :
               /\ tempdir' = w.tempdir
               /\ file_count' = w.file_count
               /\ failed' = w.failed
               /\ fault' = Disarm(w.failed)
               /\ es_pc' = AfterWrite(w)
               /\ IF w.status = "ok"
                  THEN /\ buf' = <<Head(iterator)>>
                       /\ iterator' = Tail(iterator)
                  ELSE UNCHANGED <<buf, iterator>>
       ELSE /\ buf' = Append(buf, Head(iterator))
            /\ iterator' = Tail(iterator)
            /\ UNCHANGED <<tempdir, file_count, failed, fault, es_pc>>
    /\ UNCHANGED <<max_mem, sorter_alive, kmerge, merged, sort_input, sorts>>
    /\ UNCHANGED <<pipevars, lockvars, compvars, corvars, kendvars>>

\* the outcomes of the write of the last chunk (lines 66-68)
LastWrite ==
    IF buf # <<>>
    THEN write_chunk(buf)
    ELSE {[status |-> "ok", tempdir |-> tempdir, file_count |-> file_count,
           failed |-> failed]}

\* ChunkReader::new on every file 0..file_count and kmerge(), which takes the
\* first item of every reader; the reader at index unread (0: none) fails to
\* read and counts as empty (lines 70-74, 84-96)
HeadTails(dir, count, unread) ==
    SelectSeq([n \in 1..count |->
                  [head |-> IF n = unread THEN None ELSE Decode(dir[n], 0),
                   data |-> dir[n],
                   pos |-> SizeOfItem]],
              LAMBDA ht : ht.head # None)

\* the end of sort(): the last chunk, the readers and the merge (lines 66-74)
SortFinish ==
    /\ pc = "external_sort"
    /\ es_pc = "loop"
    /\ iterator = <<>>
    /\ \E w \in LastWrite :
          /\ tempdir' = w.tempdir
          /\ file_count' = w.file_count
          /\ buf' = IF w.status = "ok" THEN <<>> ELSE buf
          /\ \/ /\ w.status # "ok"
                /\ es_pc' = w.status
                /\ failed' = w.failed
                /\ fault' = Disarm(w.failed)
                /\ UNCHANGED kmerge
             \/ /\ w.status = "ok"
                /\ fault = "open"
                /\ w.file_count > 0
                /\ es_pc' = "err"
                /\ failed' = "open"
                /\ fault' = "none"
                /\ UNCHANGED kmerge
             \/ /\ w.status = "ok"
                /\ \E unread \in 0..(IF fault = "read" THEN w.file_count ELSE 0) :
                      /\ kmerge' = HeadTails(w.tempdir, w.file_count, unread)
                      /\ failed' = IF unread = 0 THEN failed ELSE "read"
                      /\ fault' = IF unread = 0 THEN fault ELSE "none"
                /\ es_pc' = "merge"
    /\ UNCHANGED <<max_mem, sorter_alive, iterator, merged, sort_input, sorts>>
    /\ UNCHANGED <<pipevars, lockvars, compvars, corvars, kendvars>>

\* KMerge::next when a reader is left: the least head is yielded and its
\* reader is asked for the next item; a reader that returns None is removed
MergeNext ==
    /\ pc = "external_sort"
    /\ es_pc = "merge"
    /\ kmerge # <<>>
    /\ \E k \in 1..Len(kmerge) :
          /\ \A l \in 1..Len(kmerge) : ~ItemLess(Unwrap(kmerge[l].head), Unwrap(kmerge[k].head))
          /\ merged' = Append(merged, Unwrap(kmerge[k].head))
          /\ \E read_fails \in (IF fault = "read" THEN BOOLEAN ELSE {FALSE}) :
                LET item == IF read_fails THEN None
                            ELSE Decode(kmerge[k].data, kmerge[k].pos)
                IN  /\ kmerge' =
                          IF item = None
                          THEN [l \in 1..(Len(kmerge) - 1) |->
                                   IF l < k THEN kmerge[l] ELSE kmerge[l + 1]]
                          ELSE [kmerge EXCEPT ![k] =
                                   [head |-> item, data |-> @.data,
                                    pos |-> @.pos + SizeOfItem]]
                    /\ failed' = IF read_fails THEN "read" ELSE failed
                    /\ fault' = IF read_fails THEN "none" ELSE fault
    /\ UNCHANGED <<max_mem, file_count, tempdir, sorter_alive, es_pc, iterator,
                   buf, sort_input, sorts>>
    /\ UNCHANGED <<pipevars, lockvars, compvars, corvars, kendvars>>

\* KMerge::next when no reader is left: None, the merge is fully consumed
MergeEnd ==
    /\ pc = "external_sort"
    /\ es_pc = "merge"
    /\ kmerge = <<>>
    /\ es_pc' = "consumed"
    /\ UNCHANGED <<max_mem, file_count, tempdir, sorter_alive, iterator, buf,
                   kmerge, merged, sort_input, sorts, fault, failed>>
    /\ UNCHANGED <<pipevars, lockvars, compvars, corvars, kendvars>>

\* the ExternalSorter value is dropped, by its owner or by the unwinding of
\* a panic: TempDir's drop removes the directory and its files (line 18)
SorterDrop ==
    /\ pc = "external_sort"
    /\ sorter_alive
    /\ es_pc # "loop"
    /\ sorter_alive' = FALSE
    /\ tempdir' = <<>>
    /\ UNCHANGED <<max_mem, file_count, es_pc, iterator, buf, kmerge, merged,
                   sort_input, sorts, fault, failed>>
    /\ UNCHANGED <<pipevars, lockvars, compvars, corvars, kendvars>>

ExtNext ==
    \/ SortCall
    \/ SortLoop
    \/ SortFinish
    \/ MergeNext
    \/ MergeEnd
    \/ SorterDrop

ExtSpec == ExtInit /\ [][ExtNext]_vars

----------------------------------------------------------------------------
(* Claims about the external sort engine, checked under ExtSpec *)

\* how many times item x occurs in s
ItemCount(s, x) == Cardinality({k \in 1..Len(s) : s[k] = x})

IsPermutationOf(s, t) ==
    /\ Len(s) = Len(t)
    /\ \A x \in SortItems : ItemCount(s, x) = ItemCount(t, x)

Ascending(s) == \A k \in 1..(Len(s) - 1) : ~ItemLess(s[k + 1], s[k])

\* the first sort of a sorter, with no I/O failure so far
FirstSortNoFailure == sorts = 1 /\ failed = "none"

\* C13: for every stream of K items and every budget (B < K and B = 1
\* included) the first sort of a sorter, once its merge is fully consumed,
\* has yielded all K items in an order an in-memory sort of the stream
\* gives: a permutation of the input, ordered by the comparator; and what
\* the merge has yielded so far is always in order.
C13_ExternalSortRoundTrip ==
    FirstSortNoFailure =>
        /\ es_pc \in {"merge", "consumed"} => Ascending(merged)
        /\ es_pc = "consumed" => IsPermutationOf(merged, sort_input)

\* three items with a budget of one item: three segments, an input that is
\* not in order and has two items of equal key
C13_Witness ==
    /\ FirstSortNoFailure
    /\ es_pc = "consumed"
    /\ MaxSize = 1
    /\ file_count = 3
    /\ ~Ascending(sort_input)
    /\ \E k, l \in 1..Len(sort_input) :
          sort_input[k].key = sort_input[l].key /\ sort_input[k].tag # sort_input[l].tag
    /\ Len(merged) = 3

\* C14 as claimed: once the merge has been fully consumed, or the engine has
\* been discarded, no segment file of the sort remains.
C14_SegmentsRemoved ==
    (es_pc = "consumed" \/ ~sorter_alive) => tempdir = <<>>

----------------------------------------------------------------------------
(* Claims about the ranking, checked under Spec *)

\* how many records of s have a raw p-value larger than p
LargerPValues(s, p) ==
    Cardinality({k \in 1..Len(s) : FLt(p, Unwrap(s[k].p_value))})

\* C15: adjust() is invoked once per surviving record, the k-th call with
\* rank k - 1 and the p-value of the k-th record of the ranked stream, which
\* holds every surviving record once; N is the number of surviving records;
\* for BH/BY the record of rank r has the r-th largest raw p-value.
C15_AdjustCallOrder ==
    pc \in {"adjust", "done"} =>
        /\ Len(sorted) = number_of_evaluated_combinations
        /\ \A k \in 1..Len(sorted) :
              Occurrences(sorted, sorted[k]) = Occurrences(filtered, sorted[k])
        /\ Unwrap(adjustment_struct).total_number_of_elements =
              Rat(number_of_evaluated_combinations, 1)
        /\ Len(adjust_calls) = rank
        /\ \A k \in 1..Len(adjust_calls) :
              /\ adjust_calls[k].rank = k - 1
              /\ adjust_calls[k].p_value = Unwrap(sorted[k].p_value)
              /\ analysis.adjustment_method \in StepUpMethods =>
                    LargerPValues(filtered, adjust_calls[k].p_value) <= k - 1
        /\ pc = "done" => Len(adjust_calls) = number_of_evaluated_combinations

\* a finished Benjamini-Yekutieli run over three survivors that were not
\* generated in p-value order
C15_Witness ==
    /\ pc = "done"
    /\ analysis.adjustment_method = "BenjaminiYekutieli"
    /\ Len(adjust_calls) = 3
    /\ FLt(Unwrap(filtered[1].p_value), Unwrap(filtered[2].p_value))
    /\ FLt(adjust_calls[3].p_value, adjust_calls[1].p_value)

----------------------------------------------------------------------------
(* analysis.rs: compute() and datasets_and_shapes (lines 274-351)            *)

\* the longest header row
MaxHeader == 3

\* metadata.len() / 1_048_576 (line 346)
BytesPerMb == 1048576

\* size_in_mb <= 100 (line 347)
CollectLimitMb == 100

ColumnNames == {"id", "s1", "s2"}

Headers == UNION {[1..n -> ColumnNames] : n \in 0..MaxHeader}

\* a file that cannot be opened; a file that is opened and whose header row
\* cannot be read (an I/O error, bytes that are not UTF-8); a file with a
\* header row at most; a file with a header row and at least one data row
GeneFiles ==
    {[state |-> "missing", headers |-> <<>>],
     [state |-> "unreadable", headers |-> <<>>]}
    \cup [state : {"no_rows"}, headers : Headers]
    \cup [state : {"rows"}, headers : Headers \ {<<>>}]

\* file sizes on both sides of 100 MB and of 101 MB
GemSizes ==
    {0, CollectLimitMb * BytesPerMb - 1, CollectLimitMb * BytesPerMb,
     CollectLimitMb * BytesPerMb + 1, (CollectLimitMb + 1) * BytesPerMb - 1,
     (CollectLimitMb + 1) * BytesPerMb}

GemFiles ==
    {[state |-> "missing", headers |-> <<>>, size |-> 0],
     [state |-> "unreadable", headers |-> <<>>, size |-> 0]}
    \cup [state : {"ok"}, headers : Headers, size : GemSizes]

\* Vec::remove(index), 0-based
Remove(v, index) ==
    [k \in 1..(Len(v) - 1) |-> IF k <= index THEN v[k] ELSE v[k + 1]]

\* Dataset::new (dataset.rs, lines 10-28, 171-180): reader_from_path turns a
\* failure to open into GGCAError; headers_from_reader unwraps the result of
\* reading the header row
DatasetNew(file) ==
    IF file.state = "missing" THEN "GGCAError"
    ELSE IF file.state = "unreadable" THEN "panic"
    ELSE "Ok"

\* datasets_and_shapes (lines 274-329): "Ok", the error it returns, or
\* "panic" when an unwrap fails or Vec::remove is called with an index that
\* is out of bounds
datasets_and_shapes(df1, df2, contains_cpg) ==
    IF DatasetNew(df1) # "Ok" THEN DatasetNew(df1)
    ELSE IF df1.state = "no_rows" THEN "GGCAError"
    ELSE IF DatasetNew(df2) # "Ok" THEN DatasetNew(df2)
    ELSE IF contains_cpg /\ Len(df2.headers) < 2 THEN "panic"
    ELSE LET dataset_1_headers == df1.headers
             m2_headers_to_compare ==
                 IF contains_cpg THEN Remove(df2.headers, 1) ELSE df2.headers
         IN  IF Len(dataset_1_headers) # Len(m2_headers_to_compare)
             THEN "GGCADiffSamplesLength"
             ELSE IF Len(dataset_1_headers) = 0 THEN "panic"
             ELSE IF Remove(dataset_1_headers, 0) # Remove(m2_headers_to_compare, 0)
                  THEN "GGCADiffSamples"
                  ELSE "Ok"

\* the state when compute() is called
ComputeInit ==
    \E g1 \in GeneFiles, g2 \in GemFiles, cpg \in BOOLEAN,
       collect \in {None, Some(TRUE), Some(FALSE)} :
        /\ collect # None => g2.size = 0
        /\ pc = "compute"
        /\ PipelineIdle
        /\ LockIdle
        /\ SortIdle
        /\ CorIdle
        /\ KendallIdle
        /\ gene_file = g1
        /\ gem_file = g2
        /\ gem_contains_cpg = cpg
        /\ collect_gem_dataset = collect
        /\ compute_pc = "datasets_and_shapes"
        /\ compute_result = None
        /\ should_collect_gem_dataset = None

\* self.datasets_and_shapes(...)? (lines 333-337)
ComputeValidate ==
    /\ pc = "compute"
    /\ compute_pc = "datasets_and_shapes"
    /\ LET validated == datasets_and_shapes(gene_file, gem_file, gem_contains_cpg)
       IN  IF validated = "Ok"
           THEN /\ compute_pc' = "should_collect"
                /\ UNCHANGED compute_result
           ELSE /\ compute_pc' = "returned"
                /\ compute_result' = Some(validated)
    /\ UNCHANGED <<gene_file, gem_file, gem_contains_cpg, collect_gem_dataset,
                   should_collect_gem_dataset>>
    /\ UNCHANGED <<pipevars, lockvars, sortvars, corvars, kendvars>>

\* size_in_mb (line 346)
SizeInMb(len) == len \div BytesPerMb

\* should_collect_gem_dataset (lines 339-348)
ShouldCollect(collect, len) ==
    IF IsSome(collect)
    THEN Unwrap(collect)
    ELSE SizeInMb(len) <= CollectLimitMb

ComputeShouldCollect ==
    /\ pc = "compute"
    /\ compute_pc = "should_collect"
    /\ should_collect_gem_dataset' =
          Some(ShouldCollect(collect_gem_dataset, gem_file.size))
    /\ compute_pc' = "run_analysis"
    /\ UNCHANGED <<gene_file, gem_file, gem_contains_cpg, collect_gem_dataset,
                   compute_result>>
    /\ UNCHANGED <<pipevars, lockvars, sortvars, corvars, kendvars>>

\* self.run_analysis(m1, m2, number_of_samples, should_collect_gem_dataset)
\* is entered (line 350)
ComputeRunAnalysis ==
    /\ pc = "compute"
    /\ compute_pc = "run_analysis"
    /\ pc' = "run_analysis"
    /\ UNCHANGED <<sort_by_calls, analysis, d1_vec, d2_vec, correlate, generated, fpos, kept,
                   number_of_cor_filtered, filtered,
                   number_of_evaluated_combinations, sorted, rank,
                   adjustment_struct, adjust_calls, thresholded,
                   total_combinations_count, result, ranked>>
    /\ UNCHANGED <<compvars, lockvars, sortvars, corvars, kendvars>>

ComputeNext ==
    \/ ComputeValidate
    \/ ComputeShouldCollect
    \/ ComputeRunAnalysis

ComputeSpec == ComputeInit /\ [][ComputeNext]_vars

----------------------------------------------------------------------------
(* Claims about compute(), checked under ComputeSpec *)

\* what datasets_and_shapes has answered
Validated == compute_pc # "datasets_and_shapes"

Outcome == IF compute_result = None THEN "Ok" ELSE Unwrap(compute_result)

\* both files can be read, A has a data row and B has the columns its
\* configuration says it has
Comparable ==
    /\ gene_file.state = "rows"
    /\ gem_file.state = "ok"
    /\ Len(gem_file.headers) >= (IF gem_contains_cpg THEN 2 ELSE 1)

\* the sample columns of A: its header without the index column
SamplesA == Tail(gene_file.headers)

\* the sample columns of B: its header without the index column and without
\* the secondary-annotation column
SamplesB ==
    IF gem_contains_cpg
    THEN Tail(Tail(gem_file.headers))
    ELSE Tail(gem_file.headers)

\* the primary dataset is empty or cannot be read
EmptyOrUnreadable == gene_file.state \in {"missing", "unreadable", "no_rows"}

\* C16 as claimed: an empty or unreadable primary dataset gives GGCAError, a
\* different number of sample columns GGCADiffSamplesLength, the same number
\* but other names or another order GGCADiffSamples, and equal sample
\* columns are accepted whatever the index columns are called; an error is
\* returned by compute() before run_analysis, which evaluates the pairs, is
\* entered.
C16_ValidationIsFatal ==
    Validated =>
        /\ EmptyOrUnreadable => Outcome = "GGCAError"
        /\ Comparable =>
              /\ Len(SamplesA) # Len(SamplesB) =>
                    Outcome = "GGCADiffSamplesLength"
              /\ (Len(SamplesA) = Len(SamplesB) /\ SamplesA # SamplesB) =>
                    Outcome = "GGCADiffSamples"
              /\ SamplesA = SamplesB => Outcome = "Ok"
        /\ Outcome # "Ok" =>
              /\ compute_pc = "returned"
              /\ pc # "run_analysis"
              /\ should_collect_gem_dataset = None
        /\ pc = "run_analysis" => Outcome = "Ok"

\* C20 as claimed: an explicit collect_gem_dataset is the selection; without
\* one, the second dataset is selected for buffering exactly when the size of
\* its file is at most 100 * 1,048,576 bytes.
C20_AutoCollectUpTo100MB ==
    should_collect_gem_dataset # None =>
        Unwrap(should_collect_gem_dataset) =
            IF IsSome(collect_gem_dataset)
            THEN Unwrap(collect_gem_dataset)
            ELSE gem_file.size <= CollectLimitMb * BytesPerMb

----------------------------------------------------------------------------
(* Claims about I/O failures of the external sort engine, checked under      *)
(* ExtSpec                                                                   *)

\* C17 as claimed: once an I/O operation on a segment has failed, while it
\* is written or while it is read back, the sort has ended (read here in the
\* claim's favour: with an error value or with a panic); no stream, whole or
\* truncated, is returned or consumed.
C17_IOFailureIsFatal ==
    (sorts = 1 /\ failed # "none") => es_pc \in {"err", "panic"}

----------------------------------------------------------------------------
(* Claims about determinism, checked under Spec *)

\* the records of row i of A against the rows of B, in the order of B
RowRecords(i) == [j \in 1..Len(d2_vec) |-> correlation_function(i, j)]

\* every record in pair-generation order: the rows of A in order, each
\* against the rows of B in order
RowMajorRecords ==
    [k \in 1..(Len(d1_vec) * Len(d2_vec)) |->
        correlation_function(((k - 1) \div Len(d2_vec)) + 1,
                             ((k - 1) % Len(d2_vec)) + 1)]

\* what one sequential pass of the filter over the records keeps
SequentialFilter(records) == SelectSeq(records, LAMBDA rec : NanFilterKeeps(rec))

\* the results a run over the collected stream can return: one for each
\* order the sorts may leave tied records in
ResultsOf ==
    UNION {LET passing == SelectSeq(run, LAMBDA rec : ThresholdKeeps(rec))
           IN  IF analysis.keep_top_n = None
               THEN {passing}
               ELSE {Take(top, Unwrap(analysis.keep_top_n)) : top \in
                       SortedDescBy(passing,
                           [k \in 1..Len(passing) |-> CorrelationKey(passing[k])])}
           : run \in UnfilteredRuns}

\* no two surviving records have the same p-value or the same |statistic|
NoTies ==
    \A k, l \in 1..Len(filtered) :
        k # l => /\ filtered[k].p_value # filtered[l].p_value
                 /\ abs_correlation(filtered[k]) # abs_correlation(filtered[l])

----------------------------------------------------------------------------
(* correlation.rs: the Pearson strategy *)

\* the number of samples of a row: the n of Pearson::new
Samples == 3

\* the values of a sample are 0..MaxValue
MaxValue == 2

\* the statistic's probability, where the model has no closed form for it,
\* is one of the multiples of 1/CdfDen strictly inside its half of [0, 1]
CdfDen == 8

SampleRows == [1..Samples -> 0..MaxValue]

RECURSIVE SumSeq(_)
SumSeq(s) == IF s = <<>> THEN 0 ELSE Head(s) + SumSeq(Tail(s))

\* An f64 that is a quotient by a square root is kept as sign * sqrt(sq),
\* sq an extended rational that is not negative; it is NaN when sq is.
Root(sign, sq) == [sign |-> sign, sq |-> sq]

RootNaN == Root(0, NaN)

RootIsNaN(v) == IsNaN(v.sq)

RootIsInfinite(v) == v.sq = <<1, 0>>

\* numerator / radicand.sqrt(): the square root of a negative number is NaN
DivBySqrt(numerator, radicand) ==
    LET sq == FDiv(FMul(numerator, numerator), radicand) IN
        IF radicand[1] < 0 \/ IsNaN(sq) THEN RootNaN
        ELSE Root(SignInt(numerator[1]), sq)

\* mutant of pearson_correlation: a zero denominator gives a coefficient of 0
pearson_correlation_zero_for_constant(x, y) ==
    LET n      == Len(x)
        sum_x  == SumSeq(x)
        sum_y  == SumSeq(y)
        sum_xy == SumSeq([i \in 1..n |-> x[i] * y[i]])
        sum_x2 == SumSeq([i \in 1..n |-> x[i] * x[i]])
        sum_y2 == SumSeq([i \in 1..n |-> y[i] * y[i]])
        numerator == FSub(Rat(sum_xy, 1), Rat(sum_x * sum_y, n))
        radicand  == FMul(FSub(Rat(sum_x2, 1), Rat(sum_x * sum_x, n)),
                          FSub(Rat(sum_y2, 1), Rat(sum_y * sum_y, n)))
    IN  IF radicand = Zero THEN Root(0, Zero)
        ELSE DivBySqrt(numerator, radicand)

\* pearson_correlation (lines 260-280)
pearson_correlation(x, y) ==
    LET n      == Len(x)
        sum_x  == SumSeq(x)
        sum_y  == SumSeq(y)
        sum_xy == SumSeq([i \in 1..n |-> x[i] * y[i]])
        sum_x2 == SumSeq([i \in 1..n |-> x[i] * x[i]])
        sum_y2 == SumSeq([i \in 1..n |-> y[i] * y[i]])
        numerator == FSub(Rat(sum_xy, 1), Rat(sum_x * sum_y, n))
        radicand  == FMul(FSub(Rat(sum_x2, 1), Rat(sum_x * sum_x, n)),
                          FSub(Rat(sum_y2, 1), Rat(sum_y * sum_y, n)))
    IN  DivBySqrt(numerator, radicand)

\* Pearson::new (line 538): (n - 2) as f64
DegreesOfFreedom(n) == n - 2

\* degrees_of_freedom.sqrt() * r / (1.0 - r.powi(2)).sqrt() (line 553)
PearsonStatistic(degrees_of_freedom, coefficient) ==
    LET radicand == FSub(One, coefficient.sq)
        sq == FDiv(FMul(Rat(degrees_of_freedom, 1), coefficient.sq), radicand)
    IN  IF RootIsNaN(coefficient) \/ radicand[1] < 0 \/ IsNaN(sq) THEN RootNaN
        ELSE Root(IF sq = Zero THEN 0 ELSE coefficient.sign, sq)

\* student_distribution.cdf(statistic) (line 559), of a statistic that is not
\* NaN: 0 and 1 at the infinities, 1/2 at 0, 1/2 + atan(t)/pi for one degree
\* of freedom where that is rational, and otherwise some value strictly
\* between 0 and 1/2 for a negative statistic and between 1/2 and 1 for a
\* positive one.
StudentsTCdf(degrees_of_freedom, t) ==
    LET half == Rat(1, 2)
        up(q) == IF t.sign > 0 THEN FAdd(half, q) ELSE FSub(half, q)
    IN  IF RootIsInfinite(t) THEN {up(half)}
        ELSE IF t.sign = 0 THEN {half}
        ELSE IF degrees_of_freedom = 1 /\ t.sq = Rat(1, 3) THEN {up(Rat(1, 6))}
        ELSE IF degrees_of_freedom = 1 /\ t.sq = One THEN {up(Rat(1, 4))}
        ELSE IF degrees_of_freedom = 1 /\ t.sq = Rat(3, 1) THEN {up(Rat(1, 3))}
        ELSE {Rat(k, CdfDen) : k \in {j \in 1..(CdfDen - 1) :
                                          IF t.sign > 0 THEN 2 * j > CdfDen
                                          ELSE 2 * j < CdfDen}}

\* 2.0 * cdf.min(ccdf) (lines 560-561)
PearsonPValue(c) == FMul(Rat(2, 1), FMin(c, FSub(One, c)))

\* the state when Pearson::correlate is called on a pair of rows
PearsonInit ==
    \E x \in SampleRows, y \in SampleRows :
        /\ pc = "correlate"
        /\ PipelineIdle
        /\ LockIdle
        /\ SortIdle
        /\ ComputeIdle
        /\ KendallIdle
        /\ xs = x
        /\ ys = y
        /\ cor_pc = "correlate"
        /\ pearson_r = <<>>
        /\ statistic = <<>>
        /\ cdf = None
        /\ returned = None

\* Pearson::correlate (lines 547-566)
PearsonCorrelate ==
    /\ pc = "correlate"
    /\ cor_pc = "correlate"
    /\ LET coefficient == pearson_correlation(xs, ys)
           t == PearsonStatistic(DegreesOfFreedom(Len(xs)), coefficient)
       IN  /\ pearson_r' = coefficient
           /\ statistic' = t
           /\ IF RootIsNaN(t)
              THEN /\ cdf' = None
                   /\ returned' = Some(<<coefficient, NaN>>)
              ELSE \E c \in StudentsTCdf(DegreesOfFreedom(Len(xs)), t) :
                       /\ cdf' = Some(c)
                       /\ returned' = Some(<<coefficient, PearsonPValue(c)>>)
    /\ cor_pc' = "returned"
    /\ UNCHANGED <<xs, ys>>
    /\ UNCHANGED <<pipevars, lockvars, sortvars, compvars, kendvars>>

\* the CorResult get_correlation_result builds of what correlate returned
\* (analysis.rs lines 20-41)
PearsonCorResult ==
    [correlation |-> Some(Unwrap(returned)[1]),
     p_value |-> Some(Unwrap(returned)[2])]

\* the NaN filter of an all-vs-all run on the pair's record (analysis.rs
\* lines 90-98 and 175-177)
PearsonNanFilter ==
    /\ pc = "correlate"
    /\ cor_pc = "returned"
    /\ IF p_value_is_nan(PearsonCorResult)
       THEN /\ number_of_cor_filtered' = number_of_cor_filtered + 1
            /\ cor_pc' = "dropped"
       ELSE /\ UNCHANGED number_of_cor_filtered
            /\ cor_pc' = "kept"
    /\ UNCHANGED <<xs, ys, pearson_r, statistic, cdf, returned>>
    /\ UNCHANGED <<sort_by_calls, analysis, d1_vec, d2_vec, correlate, pc, generated, fpos,
                   kept, filtered, number_of_evaluated_combinations, sorted,
                   rank, adjustment_struct, adjust_calls, thresholded,
                   total_combinations_count, result, ranked>>
    /\ UNCHANGED <<lockvars, sortvars, compvars, kendvars>>

PearsonNext ==
    \/ PearsonCorrelate
    \/ PearsonNanFilter

PearsonSpec == PearsonInit /\ [][PearsonNext]_vars

----------------------------------------------------------------------------
(* Claims about the Pearson strategy, checked under PearsonSpec *)

\* correlate has returned
Correlated == cor_pc \in {"returned", "kept", "dropped"}

\* the p-value correlate returned
ReturnedPValue == Unwrap(returned)[2]

\* a row whose samples are all equal: zero variance
ConstantRow(row) == \A i \in 1..Len(row) : row[i] = row[1]

\* C19 as claimed: whenever the test statistic is NaN or infinite, the
\* p-value returned is NaN and the NaN filter does not keep the pair.
C19_NonFiniteStatisticGivesNaN ==
    (Correlated /\ (RootIsNaN(statistic) \/ RootIsInfinite(statistic))) =>
        /\ IsNaN(ReturnedPValue)
        /\ cor_pc # "kept"

\* C19: a pair with a zero-variance row has an undefined r and a NaN test
\* statistic; whenever the statistic is NaN the p-value returned is NaN and
\* the NaN filter drops and counts the pair; whenever it is not NaN the
\* p-value is in [0, 1] and the filter keeps the pair, and an infinite
\* statistic, which is that of r = 1 or r = -1, has the p-value 0.
C19_NaNStatisticGivesNaN ==
    Correlated =>
        /\ (ConstantRow(xs) \/ ConstantRow(ys)) =>
              RootIsNaN(pearson_r) /\ RootIsNaN(statistic)
        /\ RootIsNaN(statistic) =>
              /\ IsNaN(ReturnedPValue)
              /\ cdf = None
              /\ cor_pc # "kept"
              /\ cor_pc = "dropped" => number_of_cor_filtered = 1
        /\ ~RootIsNaN(statistic) =>
              /\ FLe(Zero, ReturnedPValue)
              /\ FLe(ReturnedPValue, One)
              /\ cor_pc # "dropped"
              /\ number_of_cor_filtered = 0
        /\ RootIsInfinite(statistic) <=>
              (pearson_r.sq = One /\ ~RootIsNaN(statistic))
        /\ RootIsInfinite(statistic) => ReturnedPValue = Zero

\* a pair of a constant row and a row that is not constant has been dropped
\* by the filter
C19_Witness ==
    /\ cor_pc = "dropped"
    /\ ConstantRow(xs)
    /\ ~ConstantRow(ys)
    /\ IsNaN(ReturnedPValue)

----------------------------------------------------------------------------
(* Further claims about the adjustment strategies, checked under AdjSpec *)

\* C22: Bonferroni over N >= 1 p-values in [0, 1] returns min(raw * N, 1) for
\* every record, a value between raw and 1; the value is the same whatever
\* rank is passed, and the strategy has no state a call could change, so it
\* is the same in whatever order the records are adjusted.
C22_BonferroniBound ==
    (pc = "adjustment_test" /\ analysis.adjustment_method = "Bonferroni") =>
        /\ adjustment_struct = Some(BonferroniNew(Rat(Len(ranked), 1)))
        /\ \A k \in 1..Len(adjust_calls) :
              LET call == adjust_calls[k]
                  product == FMul(call.p_value, Rat(Len(ranked), 1))
              IN  /\ call.q_value = IF FLe(product, One) THEN product ELSE One
                  /\ FLe(call.p_value, call.q_value)
                  /\ FLe(call.q_value, One)
                  /\ \A other \in 0..MaxN :
                        Adjust(Unwrap(adjustment_struct), call.p_value, other).q_value
                            = call.q_value

\* a finished Bonferroni run over at least three p-values: one record is
\* capped at 1, another is raised above its raw p-value and stays below 1
C22_Witness ==
    /\ pc = "adjustment_test"
    /\ analysis.adjustment_method = "Bonferroni"
    /\ Len(ranked) >= 3
    /\ Len(adjust_calls) = Len(ranked)
    /\ \E k, l \in 1..Len(adjust_calls) :
          /\ adjust_calls[k].q_value = One
          /\ FLt(adjust_calls[k].p_value, One)
          /\ adjust_calls[l].rank > 0
          /\ FLt(adjust_calls[l].p_value, adjust_calls[l].q_value)
          /\ FLt(adjust_calls[l].q_value, One)

\* C29: for Benjamini-Hochberg and Benjamini-Yekutieli, called with rank
\* 0, 1, ... over p-values of [0, 1] in descending order, every value
\* returned lies between the record's raw p-value and 1; under
\* Benjamini-Hochberg the record of rank 0 gets its raw p-value; and the
\* running state after each call is the value that call returned (f64::MAX
\* before the first call).
C29_AdjustedValueRange ==
    (pc = "adjustment_test" /\ analysis.adjustment_method \in StepUpMethods) =>
        /\ \A k \in 1..Len(adjust_calls) :
              /\ adjust_calls[k].rank = k - 1
              /\ FLe(adjust_calls[k].p_value, adjust_calls[k].q_value)
              /\ FLe(adjust_calls[k].q_value, One)
        /\ (analysis.adjustment_method = "BenjaminiHochberg"
               /\ Len(adjust_calls) >= 1) =>
              adjust_calls[1].q_value = adjust_calls[1].p_value
        /\ Unwrap(adjustment_struct).previous_max_p_value =
              IF adjust_calls = <<>> THEN F64Max
              ELSE adjust_calls[Len(adjust_calls)].q_value

\* a Benjamini-Hochberg run over at least three p-values after its second
\* call or later: the record of rank 0 has a p-value below 1 and the last
\* call returned a value strictly between its raw p-value and the state it
\* found
C29_Witness ==
    /\ pc = "adjustment_test"
    /\ analysis.adjustment_method = "BenjaminiHochberg"
    /\ Len(ranked) >= 3
    /\ Len(adjust_calls) >= 2
    /\ FLt(adjust_calls[1].q_value, One)
    /\ LET n == Len(adjust_calls) IN
          /\ FLt(adjust_calls[n].p_value, adjust_calls[n].q_value)
          /\ FLt(adjust_calls[n].q_value, adjust_calls[n - 1].q_value)
          /\ Unwrap(adjustment_struct).previous_max_p_value = adjust_calls[n].q_value

----------------------------------------------------------------------------
(* Further claims about the pipeline, checked under Spec *)

\* C30: a run that has returned has result length <= count before
\* truncation <= N_evaluated <= |A| * |B|.
C30_CounterOrdering ==
    pc = "done" =>
        /\ Len(result) <= total_combinations_count
        /\ total_combinations_count <= number_of_evaluated_combinations
        /\ number_of_evaluated_combinations <= Len(d1_vec) * Len(d2_vec)

\* a finished run with a cap in which a NaN pair was filtered and the
\* threshold dropped another record, so that the three inequalities are
\* between different numbers or met by a non-empty result
C30_Witness ==
    /\ pc = "done"
    /\ IsSome(analysis.keep_top_n)
    /\ Len(result) >= 1
    /\ Len(result) = total_combinations_count
    /\ total_combinations_count < number_of_evaluated_combinations
    /\ number_of_evaluated_combinations < Len(d1_vec) * Len(d2_vec)

\* C26: the N handed to the adjustment strategy is the number of records
\* that are ranked, so every adjust() call has rank <= N - 1 and its divisor
\* N - rank is at least 1, whatever was dropped by the NaN filter or by
\* matching-only mode.
C26_RankBound ==
    pc \in {"adjust", "done"} =>
        /\ Len(sorted) = number_of_evaluated_combinations
        /\ Unwrap(adjustment_struct).total_number_of_elements
              = Rat(Len(sorted), 1)
        /\ rank <= Len(sorted)
        /\ \A k \in 1..Len(adjust_calls) :
              /\ adjust_calls[k].rank <= number_of_evaluated_combinations - 1
              /\ number_of_evaluated_combinations - adjust_calls[k].rank >= 1

\* a finished Benjamini-Hochberg run in which a NaN pair was filtered and
\* the last of two survivors was adjusted with rank N - 1
C26_Witness ==
    /\ pc = "done"
    /\ analysis.adjustment_method = "BenjaminiHochberg"
    /\ number_of_cor_filtered >= 1
    /\ number_of_evaluated_combinations = 2
    /\ Len(adjust_calls) = 2
    /\ adjust_calls[2].rank = number_of_evaluated_combinations - 1

\* the value of an Option<f64> field can be unwrapped and compared
Defined(field) == IsSome(field) /\ ~IsNaN(Unwrap(field))

\* the records of a sequence
RecordsIn(stream) == {stream[k] : k \in 1..Len(stream)}

\* the records the filter closure calls p_value_is_nan on: every record of
\* an all-vs-all run, the records with gene = gem otherwise (lines 177, 181)
NanTested ==
    UNION { {rec \in RecordsIn(Unwrap(generated[i])) :
                analysis.is_all_vs_all \/ rec.gene = rec.gem} :
            i \in {j \in 1..Len(generated) : generated[j] # None} }

\* C27: every record on which p_value_is_nan unwraps the p-value has one;
\* every record that reaches the comparator of the p-value sort or the
\* adjusting map has a p-value that is not null and not NaN, and a statistic
\* that is not null when abs_correlation unwraps it in the threshold filter;
\* every record that reaches the comparator of the |statistic| sort has a
\* statistic that is not null and not NaN.
C27_NoUndefinedUnwrap ==
    /\ pc \in {"evaluate", "sort", "adjust", "done"} =>
          /\ \A rec \in NanTested : IsSome(rec.p_value)
          /\ \A i \in 1..Len(kept) :
                \A rec \in RecordsIn(kept[i]) : Defined(rec.p_value)
    /\ pc \in {"sort", "adjust", "done"} =>
          \A rec \in RecordsIn(filtered) :
              Defined(rec.p_value) /\ IsSome(rec.correlation)
    /\ pc \in {"adjust", "done"} =>
          /\ \A rec \in RecordsIn(sorted) :
                Defined(rec.p_value) /\ IsSome(rec.correlation)
          /\ \A rec \in RecordsIn(thresholded) : Defined(rec.correlation)

\* a finished matching-only run with Benjamini-Hochberg and a cap: a
\* placeholder without p-value and statistic was generated for a
\* non-matching pair, and two matching records went through both sorts
C27_Witness ==
    /\ pc = "done"
    /\ ~analysis.is_all_vs_all
    /\ analysis.adjustment_method = "BenjaminiHochberg"
    /\ IsSome(analysis.keep_top_n)
    /\ \E i \in 1..Len(generated) :
          \E rec \in RecordsIn(Unwrap(generated[i])) :
              rec.p_value = None /\ rec.correlation = None
    /\ Len(sorted) = 2
    /\ Len(result) = 2

\* the pairs (row of A, row of B) in pair-generation order: the rows of A in
\* order, each against the rows of B in order
GenerationOrderPairs ==
    [k \in 1..(Len(d1_vec) * Len(d2_vec)) |->
        <<((k - 1) \div Len(d2_vec)) + 1, ((k - 1) % Len(d2_vec)) + 1>>]

\* the pairs a run without a cap returns, in pair-generation order: those
\* evaluated, with a p-value that is not NaN and a |statistic| that reaches
\* the threshold
ReturnedPairs ==
    SelectSeq(GenerationOrderPairs,
              LAMBDA pr : /\ pr \in ComputedPairs
                          /\ ~HasNaNPValue(pr)
                          /\ FLe(analysis.correlation_threshold,
                                 FAbs(correlate[pr].correlation)))

RankSortInvocations ==
    IF analysis.adjustment_method \in StepUpMethods
    THEN <<"p_value_desc">>
    ELSE <<>>

\* the sort_by calls a run makes for its truncation
TopNSortInvocations ==
    IF IsSome(analysis.keep_top_n) THEN <<"abs_correlation_desc">> ELSE <<>>

----------------------------------------------------------------------------
(* Further claims about the external sort engine, checked under ExtSpec *)

\* the segment files of the sorter's directory
Segments == {tempdir[n] : n \in 1..Len(tempdir)}

\* the items of a segment file, decoded one after the other
RECURSIVE DecodeAll(_, _)
DecodeAll(data, pos) ==
    IF Decode(data, pos) = None THEN <<>>
    ELSE <<Unwrap(Decode(data, pos))>> \o DecodeAll(data, pos + SizeOfItem)

\* C23 as claimed: for every max_mem that ExternalSorter::new accepts, the
\* buffer of sort() never holds more than max_mem / size_of items, a stream
\* of K items has been written as ceil(K / budget) segments when the merge
\* starts, each of them non-empty and sorted, and no write of a segment is an
\* error unless an I/O operation failed.
C23_SpillUnderBudget ==
    FirstSortNoFailure =>
        /\ Len(buf) <= MaxSize
        /\ es_pc \notin {"err", "panic"}
        /\ es_pc \in {"merge", "consumed"} =>
              /\ file_count * MaxSize >= Len(sort_input)
              /\ file_count > 0 => (file_count - 1) * MaxSize < Len(sort_input)
              /\ sorter_alive =>
                    /\ Len(tempdir) = file_count
                    /\ \A data \in Segments :
                          data # <<>> /\ Ascending(DecodeAll(data, 0))


\* C28 as claimed: whenever a sort() of a sorter whose I/O has not failed has
\* been fully consumed, what its merge yielded is exactly the stream passed
\* to that call, as a multiset, also when the sorter was used before.
C28_SortReturnsItsOwnItems ==
    (es_pc = "consumed" /\ failed = "none") =>
        IsPermutationOf(merged, sort_input)

----------------------------------------------------------------------------
(* correlation.rs: tau_b_with_comparator, Kendall's tau-b *)

\* the longest vectors handed to tau_b_with_comparator
KendallSamples == 4

\* the values of a sample are 0..KendallMaxValue
KendallMaxValue == 2

KendallRows(n) == [1..n -> 0..KendallMaxValue]

\* pairs_comparator (lines 19-21) on values that are not NaN
pairs_comparator(a, b) ==
    IF a < b THEN "Less" ELSE IF a = b THEN "Equal" ELSE "Greater"

\* the comparator of par_sort_by (lines 31-38): by x, then by y
PairsOrdering(pair1, pair2) ==
    LET res == pairs_comparator(pair1[1], pair2[1]) IN
        IF res = "Equal" THEN pairs_comparator(pair1[2], pair2[2]) ELSE res

\* pairs.par_sort_by(..): pairs that compare Equal are the same pair, so the
\* sorted vector is unique
RECURSIVE InsertPair(_, _)
InsertPair(sorted_pairs, pair) ==
    IF sorted_pairs = <<>> THEN <<pair>>
    ELSE IF PairsOrdering(pair, Head(sorted_pairs)) = "Greater"
         THEN <<Head(sorted_pairs)>> \o InsertPair(Tail(sorted_pairs), pair)
         ELSE <<pair>> \o sorted_pairs

RECURSIVE ParSortBy(_)
ParSortBy(pairs) ==
    IF pairs = <<>> THEN <<>>
    ELSE InsertPair(ParSortBy(Tail(pairs)), Head(pairs))

\* sum(n) (lines 204-206)
sum(n) == (n * (n + 1)) \div 2

\* update_x_group (lines 209-226) on the record of the accumulators
update_x_group(acc) ==
    [acc EXCEPT
        !.vt = @ + acc.consecutive_x_ties * (acc.consecutive_x_ties - 1)
                     * (2 * acc.consecutive_x_ties + 5),
        !.v1_part_1 = @ + acc.consecutive_x_ties * (acc.consecutive_x_ties - 1),
        !.v2_part_1 = @ + acc.consecutive_x_ties * (acc.consecutive_x_ties - 1)
                            * (acc.consecutive_x_ties - 2),
        !.tied_x_pairs = @ + sum(acc.consecutive_x_ties - 1),
        !.tied_xy_pairs = @ + sum(acc.consecutive_xy_ties - 1)]

\* the loop over the tied groups of x (lines 49-73), from 0-based index i
RECURSIVE XGroups(_, _, _)
XGroups(pairs, i, acc) ==
    IF i >= Len(pairs) THEN acc
    ELSE LET prev == pairs[i]
             curr == pairs[i + 1]
         IN  IF curr[1] = prev[1]
             THEN IF curr[2] = prev[2]
                  THEN XGroups(pairs, i + 1,
                           [acc EXCEPT !.consecutive_x_ties = @ + 1,
                                       !.consecutive_xy_ties = @ + 1])
                  ELSE XGroups(pairs, i + 1,
                           [acc EXCEPT !.consecutive_x_ties = @ + 1,
                                       !.tied_xy_pairs =
                                           @ + sum(acc.consecutive_xy_ties - 1),
                                       !.consecutive_xy_ties = 1])
             ELSE XGroups(pairs, i + 1,
                      [update_x_group(acc) EXCEPT !.consecutive_x_ties = 1,
                                                  !.consecutive_xy_ties = 1])

\* update_y_group (lines 229-243)
update_y_group(acc) ==
    [acc EXCEPT
        !.vu = @ + acc.consecutive_y_ties * (acc.consecutive_y_ties - 1)
                     * (2 * acc.consecutive_y_ties + 5),
        !.v1_part_2 = @ + acc.consecutive_y_ties * (acc.consecutive_y_ties - 1),
        !.v2_part_2 = @ + acc.consecutive_y_ties * (acc.consecutive_y_ties - 1)
                            * (acc.consecutive_y_ties - 2),
        !.tied_y_pairs = @ + sum(acc.consecutive_y_ties - 1)]

\* the loop over the tied groups of y (lines 137-152), from 0-based index j
RECURSIVE YGroups(_, _, _)
YGroups(pairs, j, acc) ==
    IF j >= Len(pairs) THEN acc
    ELSE IF pairs[j + 1][2] = pairs[j][2]
         THEN YGroups(pairs, j + 1, [acc EXCEPT !.consecutive_y_ties = @ + 1])
         ELSE YGroups(pairs, j + 1,
                  [update_y_group(acc) EXCEPT !.consecutive_y_ties = 1])

\* mutant of MergeTakesRight: equal y values count as out of order
MergeTakesRightOnTies(a, b) == pairs_comparator(a, b) # "Less"

\* the test of line 101: the right segment's head goes first
MergeTakesRight(a, b) == pairs_comparator(a, b) = "Greater"

\* the merge of two neighbouring segments (lines 97-123); i, i_end, j and
\* j_end are 0-based, dest is pairs_dest up to copy_location
RECURSIVE MergeSegments(_, _, _, _, _, _, _)
MergeSegments(pairs, i, i_end, j, j_end, dest, swaps) ==
    IF i < i_end /\ j < j_end
    THEN IF MergeTakesRight(pairs[i + 1][2], pairs[j + 1][2])
         THEN MergeSegments(pairs, i, i_end, j + 1, j_end,
                  Append(dest, pairs[j + 1]), swaps + (i_end - i))
         ELSE MergeSegments(pairs, i + 1, i_end, j, j_end,
                  Append(dest, pairs[i + 1]), swaps)
    ELSE IF i < i_end
    THEN MergeSegments(pairs, i + 1, i_end, j, j_end,
             Append(dest, pairs[i + 1]), swaps)
    ELSE IF j < j_end
    THEN MergeSegments(pairs, i, i_end, j + 1, j_end,
             Append(dest, pairs[j + 1]), swaps)
    ELSE [pairs |-> dest, swaps |-> swaps]

\* n.min(m)
MinUsize(n, m) == IF n <= m THEN n ELSE m

\* the for loop of one pass of the merge sort (lines 90-124), from offset
RECURSIVE MergeOffsets(_, _, _, _, _)
MergeOffsets(pairs, segment_size, offset, dest, swaps) ==
    IF offset >= Len(pairs) THEN [pairs |-> dest, swaps |-> swaps]
    ELSE LET i_end  == MinUsize(Len(pairs), offset + segment_size)
             j_end  == MinUsize(Len(pairs), i_end + segment_size)
             merged_segments ==
                 MergeSegments(pairs, offset, i_end, i_end, j_end, dest, swaps)
         IN  MergeOffsets(pairs, segment_size, offset + 2 * segment_size,
                          merged_segments.pairs, merged_segments.swaps)

\* v * radicand.sqrt() for v = sign * sqrt(sq)
TimesSqrt(v, radicand) ==
    IF RootIsNaN(v) \/ radicand[1] < 0 \/ IsNaN(FMul(v.sq, radicand))
    THEN RootNaN
    ELSE Root(IF FMul(v.sq, radicand) = Zero THEN 0 ELSE v.sign,
              FMul(v.sq, radicand))

\* v / radicand.sqrt() for v = sign * sqrt(sq)
RootDivBySqrt(v, radicand) ==
    IF RootIsNaN(v) \/ radicand[1] < 0 \/ IsNaN(FDiv(v.sq, radicand))
    THEN RootNaN
    ELSE Root(IF FDiv(v.sq, radicand) = Zero THEN 0 ELSE v.sign,
              FDiv(v.sq, radicand))

\* f64::clamp(-1.0, 1.0)
Clamp(v) == IF ~RootIsNaN(v) /\ FLt(One, v.sq) THEN Root(v.sign, One) ELSE v

\* the locals of tau_b_with_comparator before its first statement
KendallLocals(x, y) ==
    [x |-> x, y |-> y, pairs |-> <<>>,
     v1_part_1 |-> 0, v2_part_1 |-> 0, tied_x_pairs |-> 0, tied_xy_pairs |-> 0,
     vt |-> 0, consecutive_x_ties |-> 1, consecutive_xy_ties |-> 1,
     swaps |-> 0, segment_size |-> 1,
     v1_part_2 |-> 0, v2_part_2 |-> 0, tied_y_pairs |-> 0,
     consecutive_y_ties |-> 1, vu |-> 0,
     concordant_minus_discordant |-> 0, tau_b |-> RootNaN, z |-> RootNaN]

\* tau_b_with_comparator is called on two vectors of the same length
KendallInit ==
    \E n \in 1..KendallSamples :
        \E x \in KendallRows(n), y \in KendallRows(n) :
            /\ pc = "tau_b"
            /\ PipelineIdle
            /\ LockIdle
            /\ SortIdle
            /\ ComputeIdle
            /\ CorIdle
            /\ kendall = KendallLocals(x, y)
            /\ kendall_pc = "sort"

\* zip, par_sort_by and the pass over the tied groups of x (lines 27-83)
KendallSortByX ==
    /\ pc = "tau_b"
    /\ kendall_pc = "sort"
    /\ LET pairs == ParSortBy([k \in 1..Len(kendall.x) |->
                                  <<kendall.x[k], kendall.y[k]>>])
       IN  kendall' = update_x_group(
                          XGroups(pairs, 1, [kendall EXCEPT !.pairs = pairs]))
    /\ kendall_pc' = "merge"
    /\ UNCHANGED <<pipevars, lockvars, sortvars, compvars, corvars>>

\* one pass of the merge sort by y (lines 89-129)
KendallMergePass ==
    /\ pc = "tau_b"
    /\ kendall_pc = "merge"
    /\ kendall.segment_size < Len(kendall.pairs)
    /\ LET pass == MergeOffsets(kendall.pairs, kendall.segment_size, 0, <<>>,
                                kendall.swaps)
       IN  kendall' = [kendall EXCEPT !.pairs = pass.pairs,
                                      !.swaps = pass.swaps,
                                      !.segment_size = 2 * @]
    /\ UNCHANGED kendall_pc
    /\ UNCHANGED <<pipevars, lockvars, sortvars, compvars, corvars>>

\* the pass over the tied groups of y, tau_b and the significance (lines
\* 131-200)
KendallSignificance ==
    /\ pc = "tau_b"
    /\ kendall_pc = "merge"
    /\ kendall.segment_size >= Len(kendall.pairs)
    /\ LET acc == update_y_group(YGroups(kendall.pairs, 1, kendall))
           n == Len(kendall.pairs)
           v1 == acc.v1_part_1 * acc.v1_part_2
           v2 == acc.v2_part_1 * acc.v2_part_2
           num_pairs == (n * (n - 1)) \div 2
           concordant_minus_discordant ==
               num_pairs - acc.tied_x_pairs - acc.tied_y_pairs
                   + acc.tied_xy_pairs - 2 * acc.swaps
           non_tied_pairs_multiplied ==
               Rat((num_pairs - acc.tied_x_pairs)
                       * (num_pairs - acc.tied_y_pairs), 1)
           tau_b == DivBySqrt(Rat(concordant_minus_discordant, 1),
                              non_tied_pairs_multiplied)
           v0 == (n * (n - 1)) * (2 * n + 5)
           var_s == FAdd(FAdd(Rat(v0 - acc.vt - acc.vu, 18),
                              Rat(v1, 2 * n * (n - 1))),
                         Rat(v2, 9 * n * (n - 1) * (n - 2)))
           s == TimesSqrt(tau_b, non_tied_pairs_multiplied)
       IN  kendall' =
               [acc EXCEPT
                   !.concordant_minus_discordant = concordant_minus_discordant,
                   !.tau_b = Clamp(tau_b),
                   !.z = RootDivBySqrt(s, var_s)]
    /\ kendall_pc' = "returned"
    /\ UNCHANGED <<pipevars, lockvars, sortvars, compvars, corvars>>

KendallNext ==
    \/ KendallSortByX
    \/ KendallMergePass
    \/ KendallSignificance

KendallSpec == KendallInit /\ [][KendallNext]_vars

----------------------------------------------------------------------------
(* Claims about Kendall's tau-b, checked under KendallSpec *)

\* the pairs of positions of the two vectors
PositionPairs ==
    {ij \in (1..Len(kendall.x)) \X (1..Len(kendall.x)) : ij[1] < ij[2]}

\* the O(n^2) counts
BruteTiedX == Cardinality({ij \in PositionPairs :
                              kendall.x[ij[1]] = kendall.x[ij[2]]})

BruteTiedY == Cardinality({ij \in PositionPairs :
                              kendall.y[ij[1]] = kendall.y[ij[2]]})

BruteTiedXY ==
    Cardinality({ij \in PositionPairs :
                    /\ kendall.x[ij[1]] = kendall.x[ij[2]]
                    /\ kendall.y[ij[1]] = kendall.y[ij[2]]})

BruteConcordant ==
    Cardinality({ij \in PositionPairs :
                    (kendall.x[ij[1]] - kendall.x[ij[2]])
                        * (kendall.y[ij[1]] - kendall.y[ij[2]]) > 0})

BruteDiscordant ==
    Cardinality({ij \in PositionPairs :
                    (kendall.x[ij[1]] - kendall.x[ij[2]])
                        * (kendall.y[ij[1]] - kendall.y[ij[2]]) < 0})

\* C21: once the pairs are sorted by x then y, the accumulators of the x
\* groups are the brute-force counts of the pairs tied in x and tied in both;
\* once the merge sort by y is done, its swap count is the number of
\* discordant pairs, the y accumulator is the brute-force count of the pairs
\* tied in y, and concordant_minus_discordant = total_pairs - tied_x - tied_y
\* + tied_xy - 2 * swaps is the brute-force #concordant - #discordant.
C21_KendallCounting ==
    /\ kendall_pc \in {"merge", "returned"} =>
          /\ kendall.tied_x_pairs = BruteTiedX
          /\ kendall.tied_xy_pairs = BruteTiedXY
    /\ kendall_pc = "returned" =>
          /\ kendall.swaps = BruteDiscordant
          /\ kendall.tied_y_pairs = BruteTiedY
          /\ kendall.concordant_minus_discordant =
                Cardinality(PositionPairs) - kendall.tied_x_pairs
                    - kendall.tied_y_pairs + kendall.tied_xy_pairs
                    - 2 * kendall.swaps
          /\ kendall.concordant_minus_discordant =
                BruteConcordant - BruteDiscordant

\* two vectors of four samples with a pair tied in x only, a pair tied in y
\* only, a pair tied in both and a discordant pair
C21_Witness ==
    /\ kendall_pc = "returned"
    /\ Len(kendall.x) = 4
    /\ kendall.tied_xy_pairs >= 1
    /\ kendall.tied_x_pairs > kendall.tied_xy_pairs
    /\ kendall.tied_y_pairs > kendall.tied_xy_pairs
    /\ kendall.swaps >= 1
    /\ kendall.concordant_minus_discordant < 0

====
